---- MODULE Spec2Model ----
(***************************************************************************)
(* Model of AsyncAPSunScheduler (src/src/scheduler/aps_async_sun_scheduler *)
(* .py): the schedule forms, the APScheduler job store it drives, the job  *)
(* index, the JSON store and the coroutines (registrations, removals,      *)
(* reloads, fired callbacks) that interleave on the event loop.            *)
(*                                                                         *)
(* Time is counted in ticks of one hour of a small calendar: a day has     *)
(* DayLen ticks, a week WeekLen days, a year one month of YearLen days.    *)
(* The misfire grace time (1 second) is shorter than a tick: a job whose   *)
(* run date lies in an earlier tick is missed, a job registered in the     *)
(* tick of its run date may run or be missed.                              *)
(***************************************************************************)
EXTENDS Integers, Sequences, FiniteSets, TLC

VARIABLES
    now,        \* the current tick (datetime.now(self.tz))
    jobs,       \* self.sched: the jobs pending in the APScheduler job store
    nextJid,    \* ids handed out for jobs (uuid4 in APScheduler)
    index,      \* self._persist_index: persist_id -> set of job ids
    store,      \* the content of the file at persist_path: its "specs" list
    tasks,      \* the coroutines in progress on the event loop
    nextTid,    \* ids handed out for coroutines
    events,     \* history: the events delivered to caller callbacks
    done,       \* history: the public calls that returned or raised
    removed,    \* history: persist_id -> Len(events) when its removal returned
    latest,     \* history: persist_id -> the call that registered it last
    fired,      \* history: the jobs the timer core has run
    before,     \* history: when the process last stopped, and the triggers armed then
    providers,  \* self._holiday_providers: the names registered
    disk,       \* the files at persist_path and persist_path + ".tmp", chunk by chunk
    intents,    \* history: the record lists handed to _persist_write
    sun         \* self.sun: its _cache, and (history) the keys its last write evicted

vars == <<now, jobs, nextJid, index, store, tasks, nextTid, events, done, removed,
          latest, fired, before, providers, disk, intents, sun>>

\* the files as _persist_write leaves them, and the history of its arguments
files == <<disk, intents>>

\* the variables that only record what happened
hist == <<events, done, removed, latest, fired, before>>

-----------------------------------------------------------------------------
(* Bounds of the model *)

DayLen == 3
WeekLen == 2
YearLen == 3
SunriseClock == 1
MaxTime == 6
MaxCalls == 2
MaxJobs == 6

-----------------------------------------------------------------------------
(* The calendar: instants, dates, clock times *)

SunsetClock == DayLen - 1

DateOf(t) == t \div DayLen

ClockOf(t) == t % DayLen

\* datetime.combine(d, t, tzinfo=self.tz)
Combine(d, c) == d * DayLen + c

YearOf(d) == d \div YearLen

\* date.weekday()
WeekdayOf(d) == d % WeekLen

\* date(y, m, d): the year has one month
MkDate(y, m, d) == y * YearLen + (d - 1)

Min(a, b) == IF a <= b THEN a ELSE b

SetMin(S) == CHOOSE x \in S : \A y \in S : x <= y

-----------------------------------------------------------------------------
(* Python values *)

\* None
None == [none |-> TRUE]

IsNone(v) == DOMAIN v = {"none"}

\* a str: the list of its fields, "HH:MM:SS" split at ":", "Y/M/D" split at "/"
Str(fields) == [str |-> fields]

IsStr(v) == DOMAIN v = {"str"}

\* key in d, for a dict d; for a str d, Python tests for a substring, and no
\* time or date string contains a key name
Has(d, k) == ~IsStr(d) /\ ~IsNone(d) /\ k \in DOMAIN d

\* d.get(k, dflt)
Get(d, k, dflt) == IF Has(d, k) THEN d[k] ELSE dflt

\* dict.setdefault(k, v) on a copy
SetDefault(d, k, v) == IF k \in DOMAIN d THEN d ELSE (k :> v) @@ d

EmptyDict == [k \in {} |-> 0]

\* persist ids are strings, modelled as sequences of one-character strings
NoId == <<>>

StartsWith(s, p) == Len(s) >= Len(p) /\ SubSeq(s, 1, Len(p)) = p

DigitChar(i) == CASE i = 0 -> "0" [] i = 1 -> "1" [] i = 2 -> "2" [] OTHER -> "9"

\* f"{persist_id}#{i}" if persist_id else None
ChildId(pid, i) == IF pid = NoId THEN NoId ELSE pid \o <<"#", DigitChar(i)>>

-----------------------------------------------------------------------------
(* Helpers of the module *)

\* _parse_hhmmss: "HH:MM" or "HH:MM:SS" to a time; the clock tick is the hour
\* (the inputs of the model have zero minutes and seconds)
ParseHhmmss(s) == s.str[1]

\* _parse_date
ParseDate(s) == MkDate(s.str[1], s.str[2], s.str[3])

\* _to_td: missing components count as 0; a tick is an hour
ToTd(d) == Get(d, "hours", 0) + 0 * (Get(d, "minutes", 0) + Get(d, "seconds", 0))

\* DOW_NAME_TO_APS
DOW_NAME_TO_APS ==
    [n \in {"mon", "tue", "wed", "thu", "fri", "sat", "sun"} |->
        CASE n = "mon" -> 0 [] n = "tue" -> 1 [] n = "wed" -> 2 [] n = "thu" -> 3
          [] n = "fri" -> 4 [] n = "sat" -> 5 [] n = "sun" -> 6]

\* SunProvider.sunrise / sunset (astral): one instant per date
Sunrise(d) == Combine(d, SunriseClock)

Sunset(d) == Combine(d, SunsetClock)

\* SunProvider.__post_init__: the cache is empty
NewSun == [cache |-> EmptyDict, out |-> {}]

\* the variant that also evicts the entries of today minus 5 days
StaleFromFive(kd, today) == kd - today <= 0 - 5

\* _get_cached: (kd - today).days < -5
Stale(kd, today) == kd - today < 0 - 5

\* _get_cached(key, compute) on the provider S, key = <<on_date, "sunrise" or
\* "sunset">>, today = datetime.now(self.tz).date(): a hit leaves the cache, a
\* miss writes the computed instant and sweeps the stale keys
GetCached(S, key, today) ==
    IF key \in DOMAIN S.cache THEN S
    ELSE LET dt == IF key[2] = "sunrise" THEN Sunrise(key[1]) ELSE Sunset(key[1])
             c == S.cache @@ (key :> dt)
             old == {k \in DOMAIN c : Stale(k[1], today)}
         IN [cache |-> [k \in DOMAIN c \ old |-> c[k]], out |-> old]

\* the provider after the lookups of the keys ks, in this order
RECURSIVE Lookups(_, _, _)
Lookups(S, ks, today) ==
    IF ks = <<>> THEN S ELSE Lookups(GetCached(S, Head(ks), today), Tail(ks), today)

-----------------------------------------------------------------------------
(* APScheduler triggers *)

\* CronTrigger(hour, minute, second [, day_of_week] [, month, day]); a field
\* left out matches every value (None here)
AnyDay == {}

CronTrig(clock, dows, md) == [clock |-> clock, dows |-> dows, md |-> md]

CronMatches(cr, t) ==
    /\ ClockOf(t) = cr.clock
    /\ (cr.dows = AnyDay \/ WeekdayOf(DateOf(t)) \in cr.dows)
    /\ (IsNone(cr.md) \/ DateOf(t) = MkDate(YearOf(DateOf(t)), cr.md.month, cr.md.day))

CronPeriod == DayLen * WeekLen * YearLen

\* a variant of CronNext that takes the instant t itself when it matches
CronNextFrom(cr, t) ==
    LET cand == {u \in t..(t + CronPeriod) : CronMatches(cr, u)}
    IN IF cand = {} THEN None ELSE [t |-> SetMin(cand)]

\* CronTrigger.get_next_fire_time: the first matching instant after t, None
\* when the fields match no instant
CronNext(cr, t) ==
    LET cand == {u \in (t + 1)..(t + CronPeriod) : CronMatches(cr, u)}
    IN IF cand = {} THEN None ELSE [t |-> SetMin(cand)]

-----------------------------------------------------------------------------
(* Callables handed to the job store, and the events they deliver *)

\* a callback of the caller
User(name) == [k |-> "user", name |-> name]

\* add_any.on_trigger, closed over the caller's callback and meta
OnTrigger(name, meta) == [k |-> "any", name |-> name, meta |-> meta]

\* a lambda of one of the schedule forms, closed over env
Lam(kind, env) == [k |-> kind, env |-> env]

Event(phase, sched, spec, meta) ==
    [phase |-> phase, scheduled_for |-> sched, spec |-> spec, meta |-> meta]

Payload(phase, spec, meta) == [phase |-> phase, spec |-> spec, meta |-> meta]

-----------------------------------------------------------------------------
(* The state a coroutine works on between two awaits.  M holds the scheduler
   state it reads and writes (jobs, nextJid, index), the histories, and the
   coroutine's own locals: todo (the steps still to run), data (the store
   content it read last), ret (the handles to return), status and err. *)

Raise(M, e) ==
    [M EXCEPT !.status = "err", !.err = e, !.todo = <<>>,
              !.done = IF M.kind = "op"
                       THEN Append(@, [tid |-> M.tid, op |-> M.op, pid |-> M.pid,
                                       res |-> e, ret |-> M.ret, call |-> M.call])
                       ELSE @]

\* _index_jobs
IndexJobs(idx, persist_id, job_id) ==
    IF persist_id = NoId THEN idx
    ELSE [k \in DOMAIN idx \cup {persist_id} |->
            IF k = persist_id
            THEN (IF k \in DOMAIN idx THEN idx[k] ELSE {}) \cup {job_id}
            ELSE idx[k]]

\* self.sched.add_job(wrapper, trigger=...) followed by _index_jobs; a job
\* whose trigger has no fire time is stored without a run time and never runs
SchedAddJob(M, trig, run, cron, cb, payload, persist_id) ==
    LET jid == M.nextJid
        \* history fields: reg, the call the job goes back to, and by, the
        \* scheduled instant of the firing that registered it (None for a call)
        job == [jid |-> jid, trig |-> trig, run |-> run, late |-> run <= M.now,
                cron |-> cron, cb |-> cb, payload |-> payload,
                pid |-> persist_id, reg |-> M.reg, by |-> M.by]
    IN [M EXCEPT !.jobs = @ \cup {job},
                 !.nextJid = jid + 1,
                 !.index = IndexJobs(@, persist_id, jid),
                 !.last = jid]

\* _add_date_job
AddDateJob(M, run_dt, cb, payload, persist_id) ==
    SchedAddJob(M, "date", run_dt, None, cb, payload, persist_id)

\* _add_cron_job
AddCronJob(M, trigger, cb, payload, persist_id) ==
    LET nxt == CronNext(trigger, M.now)
    IN IF IsNone(nxt) THEN Raise(M, "ValueError")
       ELSE SchedAddJob(M, "cron", nxt.t, trigger, cb, payload, persist_id)

\* a handle of the returned list: a job id, or one of the strings
\* "sun-at:...", "sun-range:...", "annual-nth-weekday:..." that name no job
Handle(jid) == [job |-> TRUE, jid |-> jid, name |-> ""]

FakeHandle(name) == [job |-> FALSE, jid |-> 0, name |-> name]

Returns(M, h) == [M EXCEPT !.ret = Append(@, h)]

\* handles.append(job.id), reached unless the registration raised
ReturnsLast(M) == IF M.status = "err" THEN M ELSE Returns(M, Handle(M.last))

\* handles.append(name), reached unless the registration raised
ReturnsName(M, name) == IF M.status = "err" THEN M ELSE Returns(M, FakeHandle(name))

-----------------------------------------------------------------------------
(* AT *)

SunOf(d, which) == IF which = "sunrise" THEN Sunrise(d) ELSE Sunset(d)

\* _schedule_at.schedule_next
ScheduleNext(M, env) ==
    LET at == env.at
        today == DateOf(M.now)
        which == IF Has(at, "sunrise") THEN "sunrise" ELSE "sunset"
        offset == IF Has(at, "sunrise") THEN at.sunrise ELSE Get(at, "sunset", 0)
        dt0 == SunOf(today, which) + offset
        dt == IF dt0 <= M.now THEN SunOf(today + 1, which) + offset ELSE dt0
        keys == IF dt0 <= M.now THEN <<<<today, which>>, <<today + 1, which>>>>
                ELSE <<<<today, which>>>>
    IN AddDateJob([M EXCEPT !.sun = Lookups(@, keys, today)], dt, Lam("sun_at", [env EXCEPT !.dt = dt]),
                  Payload("start", [at |-> at], env.meta), env.pid)

\* _schedule_at
ScheduleAt(M, at, cb, spec, meta, persist_id) ==
    IF Has(at, "date") /\ Has(at, "time")
    THEN LET run_dt == Combine(ParseDate(at.date), ParseHhmmss(at.time))
         IN ReturnsLast(AddDateJob(M, run_dt, cb, Payload("start", [at |-> at], meta), persist_id))
    ELSE IF Has(at, "time")
    THEN LET trig == CronTrig(ParseHhmmss(at.time), AnyDay, None)
         IN ReturnsLast(AddCronJob(M, trig, cb, Payload("start", [at |-> at], meta), persist_id))
    ELSE IF Has(at, "sunrise") \/ Has(at, "sunset")
    THEN Returns(ScheduleNext(M, [at |-> at, cb |-> cb, meta |-> meta,
                                   pid |-> persist_id, dt |-> 0]),
                 FakeHandle("sun-at"))
    ELSE Raise(M, "ValueError")

-----------------------------------------------------------------------------
(* RANGE *)

Fail(e) == [ok |-> FALSE, err |-> e, start |-> 0, end |-> 0]

\* _schedule_range.compute_window
ComputeWindow(frm, base) ==
    IF ~(Has(frm, "time") \/ Has(frm, "sunrise") \/ Has(frm, "sunset"))
    THEN Fail("ValueError")
    ELSE
    LET start_dt == IF Has(frm, "time") THEN Combine(base, ParseHhmmss(frm.time))
                    ELSE IF Has(frm, "sunrise") THEN Sunrise(base) + frm.sunrise
                    ELSE Sunset(base) + frm.sunset
    IN IF Has(frm, "for")
       THEN [ok |-> TRUE, err |-> "", start |-> start_dt, end |-> start_dt + ToTd(frm["for"])]
       ELSE IF ~Has(frm, "to") THEN Fail("KeyError")
       ELSE
       LET to == frm.to
           to_date == base + Get(to, "day", 0)
       IN IF ~(Has(to, "time") \/ Has(to, "sunrise") \/ Has(to, "sunset"))
          THEN Fail("ValueError")
          ELSE
          LET end0 == IF Has(to, "time") THEN Combine(to_date, ParseHhmmss(to.time))
                      ELSE IF Has(to, "sunrise") THEN Sunrise(to_date) + to.sunrise
                      ELSE Sunset(to_date) + to.sunset
              end_dt == IF end0 <= start_dt /\ ~Has(to, "date") THEN end0 + DayLen ELSE end0
          IN [ok |-> TRUE, err |-> "", start |-> start_dt, end |-> end_dt]

\* schedule_today_or_tomorrow: today's window w0, or tomorrow's if today's
\* start is not after now
TodayOrTomorrow(w0, frm, today, t) ==
    IF w0.ok /\ w0.start <= t THEN ComputeWindow(frm, today + 1) ELSE w0

\* schedule_today_or_tomorrow: the date job of the start of the window w
ScheduleWindow(M, env, w) ==
    IF ~w.ok THEN Raise(M, w.err)
    ELSE AddDateJob(M, w.start,
                    Lam("sun_range", [env EXCEPT !.start_dt = w.start, !.end_dt = w.end]),
                    Payload("start", env.spec, env.meta), env.pid)

\* compute_window(base): the keys it looks up in the sun provider, in order
WindowKeys(frm, base) ==
    LET first == IF Has(frm, "time") THEN <<>>
                 ELSE IF Has(frm, "sunrise") THEN <<<<base, "sunrise">>>>
                 ELSE IF Has(frm, "sunset") THEN <<<<base, "sunset">>>>
                 ELSE <<>>
    IN IF ~(Has(frm, "time") \/ Has(frm, "sunrise") \/ Has(frm, "sunset"))
          \/ Has(frm, "for") \/ ~Has(frm, "to")
       THEN first
       ELSE LET to == frm.to
                to_date == base + Get(to, "day", 0)
            IN first \o (IF Has(to, "time") THEN <<>>
                         ELSE IF Has(to, "sunrise") THEN <<<<to_date, "sunrise">>>>
                         ELSE IF Has(to, "sunset") THEN <<<<to_date, "sunset">>>>
                         ELSE <<>>)

\* _schedule_range.schedule_today_or_tomorrow
ScheduleTodayOrTomorrow(M, env) ==
    LET today == DateOf(M.now)
        w0 == ComputeWindow(env.frm, today)
        keys == WindowKeys(env.frm, today)
                \o (IF w0.ok /\ w0.start <= M.now THEN WindowKeys(env.frm, today + 1) ELSE <<>>)
    IN ScheduleWindow([M EXCEPT !.sun = Lookups(@, keys, today)], env,
                      TodayOrTomorrow(w0, env.frm, today, M.now))

\* _schedule_range
ScheduleRange(M, frm, cb, full_spec, meta, persist_id) ==
    LET env == [frm |-> frm, cb |-> cb, spec |-> full_spec, meta |-> meta,
                pid |-> persist_id, start_dt |-> 0, end_dt |-> 0]
    IN
    IF Has(frm, "date") /\ Has(frm, "time")
    THEN IF ~Has(frm, "for") /\ ~(Has(frm, "to") /\ Has(frm.to, "date") /\ Has(frm.to, "time"))
         THEN Raise(M, "KeyError")
         ELSE
         LET start_dt == Combine(ParseDate(frm.date), ParseHhmmss(frm.time))
             end_dt == IF Has(frm, "for") THEN start_dt + ToTd(frm["for"])
                       ELSE Combine(ParseDate(frm.to.date), ParseHhmmss(frm.to.time))
         IN ReturnsLast(AddDateJob(
                ReturnsLast(AddDateJob(M, start_dt, cb, Payload("start", [from |-> frm], meta),
                                       persist_id)),
                end_dt, cb, Payload("end", [from |-> frm], meta), persist_id))
    ELSE IF Has(frm, "time") /\ (Has(frm, "for") \/ (Has(frm, "to") /\ Has(frm.to, "time")))
    THEN LET trig == CronTrig(ParseHhmmss(frm.time), AnyDay, None)
         IN ReturnsLast(AddCronJob(M, trig, Lam("daily_range", env),
                                   Payload("start", full_spec, meta), persist_id))
    ELSE ReturnsName(ScheduleTodayOrTomorrow(M, env), "sun-range")

-----------------------------------------------------------------------------
(* WEEKLY *)

\* _schedule_weekly
ScheduleWeekly(M, w, cb, spec, meta, persist_id) ==
    LET days == Get(w, "days", Str(<<>>))
        day_names == days.str
        frm == Get(w, "from", EmptyDict)
    IN
    IF \E i \in 1..Len(day_names) : day_names[i] \notin DOMAIN DOW_NAME_TO_APS
    THEN Raise(M, "ValueError")
    ELSE IF ~Has(frm, "time") THEN Raise(M, "ValueError")
    ELSE IF day_names = <<>> THEN Raise(M, "ValueError")
    ELSE
    LET start_t == ParseHhmmss(frm.time)
        dows == {DOW_NAME_TO_APS[day_names[i]] : i \in 1..Len(day_names)}
        trig == CronTrig(start_t, dows, None)
        env == [frm |-> frm, cb |-> cb, spec |-> spec, meta |-> meta,
                pid |-> persist_id, start_t |-> start_t]
    IN IF Has(frm, "to") /\ Has(frm.to, "time")
       THEN ReturnsLast(AddCronJob(M, trig, Lam("weekly_to", env),
                                   Payload("start", spec, meta), persist_id))
       ELSE IF Has(frm, "for")
       THEN ReturnsLast(AddCronJob(M, trig, Lam("weekly_for", env),
                                   Payload("start", spec, meta), persist_id))
       ELSE Raise(M, "ValueError")

-----------------------------------------------------------------------------
(* HOLIDAY SCHEDULING API *)

\* the holiday provider plugged into the model: two events a year, on the
\* first and on the last day of the year
HolidaysForYear(name, yr) ==
    << [date |-> MkDate(yr, 1, 1), title |-> <<"F", "e", "s", "t">>, category |-> "fake"],
       [date |-> MkDate(yr, 1, YearLen), title |-> <<"F", "a", "i", "r">>, category |-> "fake"] >>

\* str.lower, on the letters the titles use
Lower(c) == CASE c = "F" -> "f" [] c = "A" -> "a" [] OTHER -> c

LowerStr(w) == [i \in 1..Len(w) |-> Lower(w[i])]

\* needle in hay, for two strings
Contains(hay, needle) ==
    \E i \in 1..(Len(hay) - Len(needle) + 1) : SubSeq(hay, i, i + Len(needle) - 1) = needle

\* add_holiday_at.match, add_holiday_window.match
HolidayMatch(env, ev) ==
    /\ (IsNone(env.title_contains) \/ env.title_contains.str = <<>>
        \/ Contains(LowerStr(ev.title), LowerStr(env.title_contains.str)))
    /\ (IsNone(env.categories) \/ env.categories.set = {}
        \/ ev.category \in env.categories.set)

\* the spec literal the holiday callbacks put in their events
HolidayEventSpec(env) ==
    IF env.kind = "holiday_at"
    THEN [_kind |-> "holiday_at", provider |-> env.provider, time |-> env.time,
          title_contains |-> env.title_contains, categories |-> env.categories]
    ELSE [_kind |-> "holiday_window", provider |-> env.provider, from |-> env.time,
          to |-> env.to, duration |-> env.duration,
          title_contains |-> env.title_contains, categories |-> env.categories]

\* the body of the loop of schedule_for_year, for the event ev
HolidayRegister(M, env, yr, ev) ==
    IF ~HolidayMatch(env, ev) THEN M
    ELSE
    LET start_dt == Combine(ev.date, ParseHhmmss(env.time))
        end0 == IF IsNone(env.to) THEN start_dt + ToTd(IF IsNone(env.duration) THEN EmptyDict ELSE env.duration)
                ELSE Combine(ev.date, ParseHhmmss(env.to))
        end_dt == IF ~IsNone(env.to) /\ end0 <= start_dt THEN end0 + DayLen ELSE end0
    IN ReturnsLast(AddDateJob(M, start_dt,
                   Lam(env.kind, [env EXCEPT !.start_dt = start_dt, !.end_dt = end_dt, !.y = yr]),
                   Payload("start", HolidayEventSpec(env), env.meta), env.pid))

RECURSIVE HolidayLoop(_, _, _, _)
HolidayLoop(M, env, yr, evs) ==
    IF evs = <<>> THEN M
    ELSE HolidayLoop(HolidayRegister(M, env, yr, Head(evs)), env, yr, Tail(evs))

\* add_holiday_at.schedule_for_year, add_holiday_window.schedule_for_year,
\* once the provider has answered
ScheduleForYear(M, env, yr) == HolidayLoop(M, env, yr, HolidaysForYear(env.provider, yr))

-----------------------------------------------------------------------------
(* RECURRING DAYS API *)

\* _weekday_to_int, for an int or a name (a str of one field)
WeekdayToInt(weekday) ==
    IF IsStr(weekday)
    THEN IF weekday.str[1] \in DOMAIN DOW_NAME_TO_APS
         THEN [ok |-> TRUE, w |-> DOW_NAME_TO_APS[weekday.str[1]]]
         ELSE [ok |-> FALSE, w |-> 0]
    ELSE IF 0 <= weekday.int /\ weekday.int <= 6 THEN [ok |-> TRUE, w |-> weekday.int]
         ELSE [ok |-> FALSE, w |-> 0]

\* the dates of the month, in order, that fall on the weekday
RECURSIVE WeekdaysFrom(_, _, _)
WeekdaysFrom(d, last, weekday) ==
    IF d > last THEN <<>>
    ELSE (IF WeekdayOf(d) = weekday THEN <<d>> ELSE <<>>) \o WeekdaysFrom(d + 1, last, weekday)

\* _nth_weekday_of_month
NthWeekdayOfMonth(year, month, weekday, n) ==
    IF ~(1 <= month /\ month <= 12) THEN Fail("ValueError")
    ELSE
    LET days == IF month = 1
                THEN WeekdaysFrom(MkDate(year, 1, 1), MkDate(year, 1, YearLen), weekday)
                ELSE <<>>
    IN IF n = -1
       THEN (IF days = <<>> THEN Fail("IndexError")
             ELSE [ok |-> TRUE, err |-> "", start |-> days[Len(days)], end |-> 0])
       ELSE IF n < 1 \/ n > Len(days) THEN Fail("ValueError")
       ELSE [ok |-> TRUE, err |-> "", start |-> days[n], end |-> 0]

NthSpec(env) ==
    [_kind |-> "annual_nth_weekday", month |-> env.month, weekday |-> env.w,
     nth |-> env.nth, time |-> env.time]

\* schedule_year: the date job of the occurrence d
ScheduleDay(M, env, year, d) ==
    IF ~d.ok THEN Raise(M, d.err)
    ELSE LET run_dt == Combine(d.start, ParseHhmmss(env.time))
         IN AddDateJob(M, run_dt, Lam("nth", [env EXCEPT !.run_dt = run_dt, !.year = year]),
                       Payload("start", NthSpec(env), env.meta), env.pid)

\* add_annual_nth_weekday.schedule_year
ScheduleYear(M, env, year) ==
    ScheduleDay(M, env, year, NthWeekdayOfMonth(year, env.month, env.w, env.nth))

-----------------------------------------------------------------------------
(* The public calls, as the steps a coroutine runs.  A step is a record whose
   field s names it.  The steps read, upsert and delete run in a worker thread
   (asyncio.to_thread); cbwait and hol_year are awaits of the caller's
   callback and of the holiday provider; every other step runs on the loop
   without giving up control. *)

ThreadSteps == {"read", "upsert", "delete", "w_chunk", "w_replace"}

AwaitSteps == ThreadSteps \cup {"cbwait", "hol_year"}

Push(M, steps) == [M EXCEPT !.todo = steps \o @]

\* X names persist id p or has it as a child "X#..."
Covers(X, p) == p = X \/ StartsWith(p, X \o <<"#">>)

\* history: a new registration under p ends the silence a removal promised
Registers(M, p) ==
    [M EXCEPT !.removed = [X \in {Y \in DOMAIN M.removed : ~Covers(Y, p)} |-> M.removed[X]],
              !.latest = IF p = NoId THEN @ ELSE (p :> M.tid) @@ @]

\* _persist_upsert: nothing without a persist id, else a read and a write
UpsertSteps(persist_id, spec, meta) ==
    IF persist_id = NoId THEN <<>>
    ELSE << [s |-> "read"], [s |-> "upsert", id |-> persist_id, spec |-> spec, meta |-> meta] >>

\* the call goes on with steps unless it raised
OrPush(M, steps) == IF M.status = "err" THEN M ELSE Push(M, steps)

\* add
DoAdd(M, st) ==
    LET spec == st.spec
        meta0 == IF IsNone(st.meta) THEN EmptyDict ELSE st.meta
        meta_with_id == IF st.pid # NoId THEN SetDefault(meta0, "persist_id", st.pid) ELSE meta0
        M0 == Registers(M, st.pid)
        M1 == IF Has(spec, "at") THEN ScheduleAt(M0, spec.at, st.cb, spec, meta_with_id, st.pid)
              ELSE IF Has(spec, "from") THEN ScheduleRange(M0, spec.from, st.cb, spec, meta_with_id, st.pid)
              ELSE IF Has(spec, "weekly") THEN ScheduleWeekly(M0, spec.weekly, st.cb, spec, meta_with_id, st.pid)
              ELSE Raise(M0, "ValueError")
    IN OrPush(M1, UpsertSteps(st.pid, spec, meta_with_id))

\* add_any
DoAddAny(M, st) ==
    LET on_trigger == OnTrigger(st.cb.name, st.meta)
        children == [i \in 1..Len(st.schedules) |->
                        [s |-> "add", spec |-> st.schedules[i], cb |-> on_trigger,
                         meta |-> st.meta, pid |-> ChildId(st.pid, i - 1)]]
    IN Push(M, children \o UpsertSteps(st.pid, [_kind |-> "any", schedules |-> st.schedules], st.meta))

\* add_annual_fixed_day
DoAnnualFixedDay(M, st) ==
    LET spec == [_kind |-> "annual_fixed", month |-> st.month, day |-> st.day, time |-> st.time]
        trig == CronTrig(ParseHhmmss(st.time), AnyDay, [month |-> st.month, day |-> st.day])
    IN OrPush(ReturnsLast(AddCronJob(Registers(M, st.pid), trig, st.cb,
                                     Payload("start", spec, st.meta), st.pid)),
              UpsertSteps(st.pid, spec, st.meta))

RECURSIVE AnnualDatesLoop(_, _, _)
AnnualDatesLoop(M, st, i) ==
    IF i > Len(st.dates) \/ M.status = "err" THEN M
    ELSE LET md == st.dates[i]
             spec == [_kind |-> "annual_fixed", month |-> md[1], day |-> md[2], time |-> st.time]
             trig == CronTrig(ParseHhmmss(st.time), AnyDay, [month |-> md[1], day |-> md[2]])
         IN AnnualDatesLoop(ReturnsLast(AddCronJob(M, trig, st.cb, Payload("start", spec, st.meta),
                                                   st.pid)),
                            st, i + 1)

\* add_annual_dates
DoAnnualDates(M, st) ==
    OrPush(AnnualDatesLoop(Registers(M, st.pid), st, 1),
           UpsertSteps(st.pid, [_kind |-> "annual_dates", dates |-> st.dates, time |-> st.time],
                       st.meta))

\* the run date of the job registered last
LastRun(M) == SetMin({j.run : j \in {k \in M.jobs : k.jid = M.last}})

\* add_annual_nth_weekday: if first_dt <= now, schedule_year(now.year + 1)
NextYearIfPast(M, env, year) ==
    IF M.status = "err" THEN M
    ELSE IF LastRun(M) <= M.now THEN ScheduleYear(M, env, year + 1) ELSE M

\* add_annual_nth_weekday
DoAnnualNthWeekday(M, st) ==
    LET w == WeekdayToInt(st.weekday)
        env == [month |-> st.month, w |-> w.w, nth |-> st.nth, time |-> st.time, cb |-> st.cb,
                meta |-> st.meta, pid |-> st.pid, run_dt |-> 0, year |-> 0]
        year == YearOf(DateOf(M.now))
    IN IF ~w.ok THEN Raise(M, "ValueError")
       ELSE OrPush(ReturnsName(NextYearIfPast(ScheduleYear(Registers(M, st.pid), env, year),
                                              env, year),
                               "annual-nth-weekday"),
                   UpsertSteps(st.pid, NthSpec(env), st.meta))

\* add_holiday_at and add_holiday_window up to the first provider call
DoHoliday(M, st) ==
    LET env == [kind |-> st.s, provider |-> st.provider, time |-> st.time, to |-> st.to,
                duration |-> st.duration, title_contains |-> st.title_contains,
                categories |-> st.categories, years_ahead |-> st.years_ahead,
                cb |-> st.cb, meta |-> st.meta, pid |-> st.pid,
                start_dt |-> 0, end_dt |-> 0, y |-> 0]
        start_year == YearOf(DateOf(M.now))
        years == [i \in 1..(st.years_ahead + 1) |->
                    [s |-> "hol_year", env |-> env, yr |-> start_year + i - 1]]
        persist_spec == HolidayEventSpec(env) @@ [years_ahead |-> st.years_ahead]
    IN IF st.s = "holiday_window" /\ (IsNone(st.to) <=> IsNone(st.duration))
       THEN Raise(M, "ValueError")
       ELSE IF st.provider \notin M.providers THEN Raise(M, "ValueError")
       ELSE Push(Registers(M, st.pid), years \o UpsertSteps(st.pid, persist_spec, st.meta))

\* the index keys remove_persisted_by_id takes for persist_id
IndexMatch(pid, persist_id) ==
    \/ pid = persist_id
    \/ /\ StartsWith(pid, persist_id)
       /\ StartsWith(SubSeq(pid, Len(persist_id) + 1, Len(pid)), <<"#">>)

\* the records remove_persisted_by_id drops from the store
StoreMatch(id, persist_id) == id = persist_id \/ StartsWith(id, persist_id \o <<"#">>)

\* remove_persisted_by_id, step 1: remove jobs by index
DoRemoveJobs(M, st) ==
    LET keys == {pid \in DOMAIN M.index : IndexMatch(pid, st.pid)}
        to_remove == UNION {M.index[pid] : pid \in keys}
    IN [M EXCEPT !.index = [pid \in DOMAIN M.index \ keys |-> M.index[pid]],
                 !.jobs = {j \in @ : j.jid \notin to_remove}]

\* cancel: sched.remove_job raises for an id the job store does not hold (a
\* job that is gone, a string that names no job) and the handle is skipped;
\* else the job goes and its id leaves every set of the index
DoCancel(M, st) ==
    LET live == {j.jid : j \in {q \in M.jobs : \E i \in 1..Len(st.handles) :
                                      st.handles[i].job /\ st.handles[i].jid = q.jid}}
    IN [M EXCEPT !.jobs = {j \in @ : j.jid \notin live},
                 !.index = [k \in DOMAIN @ |-> @[k] \ live]]

\* the call the reload makes for one stored record
Dispatch(rec, cb, kinds) ==
    LET spec == rec.spec
        kind == IF kinds /\ Has(spec, "_kind") THEN spec._kind ELSE "none"
        base == [cb |-> cb, meta |-> Get(rec, "meta", None), pid |-> rec.id]
    IN CASE kind = "annual_fixed" ->
              [s |-> "annual_fixed", month |-> spec.month, day |-> spec.day, time |-> spec.time] @@ base
         [] kind = "annual_dates" ->
              [s |-> "annual_dates", dates |-> spec.dates, time |-> spec.time] @@ base
         [] kind = "annual_nth_weekday" ->
              [s |-> "annual_nth", month |-> spec.month, weekday |-> [int |-> spec.weekday],
               nth |-> spec.nth, time |-> spec.time] @@ base
         [] kind = "holiday_at" ->
              [s |-> "holiday_at", provider |-> spec.provider, time |-> spec.time,
               to |-> None, duration |-> None, title_contains |-> spec.title_contains,
               categories |-> spec.categories, years_ahead |-> Get(spec, "years_ahead", 1)] @@ base
         [] kind = "any" ->
              [s |-> "add_any", schedules |-> spec.schedules] @@ base
         [] OTHER -> [s |-> "add", spec |-> spec] @@ base

\* a variant of DoReloadLoop that leaves the loop at the first record the
\* resolver does not know (break for continue)
RECURSIVE Known(_, _)
Known(data, resolves) ==
    IF data = <<>> \/ Head(data).id \notin resolves THEN <<>>
    ELSE <<Head(data)>> \o Known(Tail(data), resolves)

DoReloadLoopBreak(M, st) ==
    LET recs == Known(M.data, st.resolves)
    IN Push(M, [i \in 1..Len(recs) |-> Dispatch(recs[i], User("cb"), st.kinds)])

\* load_persisted and load_persisted_with_kinds, once the store is read;
\* resolves is the set of ids the callback_resolver knows
DoReloadLoop(M, st) ==
    LET recs == SelectSeq(M.data, LAMBDA r : r.id \in st.resolves)
    IN Push(M, [i \in 1..Len(recs) |-> Dispatch(recs[i], User("cb"), st.kinds)])

\* history: the registrations made under X and its children
Under(lat, X) == [p \in {q \in DOMAIN lat : Covers(X, q)} |-> lat[p]]

\* history: the call is over; a removal that no registration of the same id
\* overlapped promises silence from here on
DoReturn(M) ==
    [M EXCEPT !.done = Append(@, [tid |-> M.tid, op |-> M.op, pid |-> M.pid,
                                  res |-> "ok", ret |-> M.ret, call |-> M.call]),
              !.removed = IF M.op = "remove" /\ Under(M.latest, M.pid) = M.mark
                          THEN (M.pid :> Len(M.events)) @@ @
                          ELSE @]

Step(M, st) ==
    CASE st.s = "add" -> DoAdd(M, st)
      [] st.s = "add_any" -> DoAddAny(M, st)
      [] st.s = "annual_fixed" -> DoAnnualFixedDay(M, st)
      [] st.s = "annual_dates" -> DoAnnualDates(M, st)
      [] st.s = "annual_nth" -> DoAnnualNthWeekday(M, st)
      [] st.s \in {"holiday_at", "holiday_window"} -> DoHoliday(M, st)
      [] st.s = "remove" -> Push(DoRemoveJobs(M, st), <<[s |-> "read"], [s |-> "delete", pid |-> st.pid]>>)
      [] st.s = "reload" ->
           Push(M, <<[s |-> "read"],
                     [s |-> "reload_loop", resolves |-> st.resolves, kinds |-> st.kinds]>>)
      [] st.s = "reload_loop" -> DoReloadLoop(M, st)
      [] st.s = "cancel" -> DoCancel(M, st)
      [] st.s = "endjob" -> AddDateJob(M, st.run_dt, st.cb, st.payload, st.pid)
      [] st.s = "sun_at_next" -> ScheduleNext(M, st.env)
      [] st.s = "sun_range_next" -> ScheduleTodayOrTomorrow(M, st.env)
      [] st.s = "nth_next" -> ScheduleYear(M, st.env, st.year)
      [] st.s = "return" -> DoReturn(M)

\* run on the loop up to the next await, or to the end
RECURSIVE RunSync(_)
RunSync(M) ==
    IF M.todo = <<>> \/ Head(M.todo).s \in AwaitSteps THEN M
    ELSE RunSync(Step([M EXCEPT !.todo = Tail(@)], Head(M.todo)))

-----------------------------------------------------------------------------
(* Delivery of events *)

\* a variant of Deliver in which on_trigger lacks the test of the phase: it
\* passes every event on
DeliverAnyPhase(M, cb, ev) ==
    LET entry(e) == [cb |-> cb.name, ev |-> e, at |-> M.now, pid |-> M.pid,
                     reg |-> M.reg, jid |-> M.jid, run |-> M.by.t, by |-> M.src]
    IN IF cb.k = "user" THEN [M EXCEPT !.events = Append(@, entry(ev))]
       ELSE [M EXCEPT !.events = Append(@, entry([triggered_by |-> ev, meta |-> cb.meta]))]

\* what the callable cb does with the event ev: the caller's callback gets it;
\* add_any.on_trigger passes a start on, wrapped, and drops an end.
\* History fields: pid, reg and jid of the job that fired, and the tick.
Deliver(M, cb, ev) ==
    LET entry(e) == [cb |-> cb.name, ev |-> e, at |-> M.now, pid |-> M.pid,
                     reg |-> M.reg, jid |-> M.jid, run |-> M.by.t, by |-> M.src]
    IN IF cb.k = "user" THEN [M EXCEPT !.events = Append(@, entry(ev))]
       ELSE IF ev.phase = "start"
       THEN [M EXCEPT !.events = Append(@, entry([triggered_by |-> ev, meta |-> cb.meta]))]
       ELSE M

CbWait == [s |-> "cbwait"]

EndJob(run_dt, cb, spec, meta, pid) ==
    [s |-> "endjob", run_dt |-> run_dt, cb |-> cb, payload |-> Payload("end", spec, meta), pid |-> pid]

\* the wrapper of _add_cron_job / _add_date_job, up to the await of the
\* caller's callback; sched is run_dt for a date job and now for a cron job
Invoke(M, j, sched) ==
    LET k == j.cb.k
        env == j.cb.env
        today == DateOf(M.now)
    IN
    CASE k \in {"user", "any"} ->
           Deliver(M, j.cb, [scheduled_for |-> sched] @@ j.payload)
      [] k = "sun_at" ->
           \* fire_then_resched
           Push(Deliver(M, env.cb, Event("start", env.dt, [at |-> env.at], env.meta)),
                <<CbWait, [s |-> "sun_at_next", env |-> env]>>)
      [] k = "daily_range" ->
           \* _schedule_range.on_start
           LET w == ComputeWindow(env.frm, today)
           IN IF ~w.ok THEN Raise(M, w.err)
              ELSE Push(Deliver(M, env.cb, Event("start", w.start, env.spec, env.meta)),
                        <<CbWait, EndJob(w.end, env.cb, env.spec, env.meta, env.pid)>>)
      [] k = "sun_range" ->
           \* fire_and_reschedule
           Push(Deliver(M, env.cb, Event("start", env.start_dt, env.spec, env.meta)),
                <<CbWait, EndJob(env.end_dt, env.cb, env.spec, env.meta, env.pid),
                  [s |-> "sun_range_next", env |-> env]>>)
      [] k = "weekly_to" ->
           \* _schedule_weekly.on_start, with to.time
           LET start_dt == Combine(today, env.start_t)
               end0 == Combine(today, ParseHhmmss(env.frm.to.time))
               end_dt == IF end0 <= start_dt THEN end0 + DayLen ELSE end0
           IN Push(Deliver(M, env.cb, Event("start", start_dt, env.spec, env.meta)),
                   <<CbWait, EndJob(end_dt, env.cb, env.spec, env.meta, env.pid)>>)
      [] k = "weekly_for" ->
           \* _schedule_weekly.on_start, with for
           LET start_dt == Combine(today, env.start_t)
               end_dt == start_dt + ToTd(env.frm["for"])
           IN Push(Deliver(M, env.cb, Event("start", start_dt, env.spec, env.meta)),
                   <<CbWait, EndJob(end_dt, env.cb, env.spec, env.meta, env.pid)>>)
      [] k = "holiday_at" ->
           \* add_holiday_at.fire_then_next
           Push(Deliver(M, env.cb, Event("start", env.start_dt, HolidayEventSpec(env), env.meta)),
                <<CbWait, [s |-> "hol_year", env |-> env, yr |-> env.y + env.years_ahead]>>)
      [] k = "holiday_window" ->
           \* add_holiday_window.fire_then_next
           Push(Deliver(M, env.cb, Event("start", env.start_dt, HolidayEventSpec(env), env.meta)),
                <<CbWait, EndJob(env.end_dt, env.cb, HolidayEventSpec(env), env.meta, env.pid),
                  [s |-> "hol_year", env |-> env, yr |-> env.y + env.years_ahead]>>)
      [] k = "nth" ->
           \* add_annual_nth_weekday.fire_and_next
           Push(Deliver(M, env.cb, Event("start", env.run_dt, NthSpec(env), env.meta)),
                <<CbWait, [s |-> "nth_next", env |-> env, year |-> env.year + 1]>>)

-----------------------------------------------------------------------------
(* The JSON store *)

\* a variant of Upsert that appends the record and keeps the one the id had
UpsertAppend(data, spec_id, spec, meta) ==
    Append(data, [id |-> spec_id, spec |-> spec, meta |-> meta])

\* _persist_upsert, the list written
Upsert(data, spec_id, spec, meta) ==
    Append(SelectSeq(data, LAMBDA r : r.id # spec_id),
           [id |-> spec_id, spec |-> spec, meta |-> meta])

\* remove_persisted_by_id, the list written
Delete(data, persist_id) == SelectSeq(data, LAMBDA r : ~StoreMatch(r.id, persist_id))

\* the end of the JSON text
End == [end |-> TRUE]

\* a stretch of a file no write has filled
Hole == [hole |-> TRUE]

\* json.dump(data, f): the text of the list, a chunk per record and one that
\* closes it
Ser(data) == Append(data, End)

\* the text parses: records, then the end, and nothing else
WellFormed(c) ==
    /\ c # <<>> /\ c[Len(c)] = End
    /\ \A i \in 1..(Len(c) - 1) : c[i] # End /\ c[i] # Hole

\* _persist_read of a file with the text c: the list, or the empty list when
\* json.load raises
Decode(c) == IF WellFormed(c) THEN SubSeq(c, 1, Len(c) - 1) ELSE <<>>

\* f.write at offset pos of a file with the text c
Put(c, pos, x) ==
    IF pos <= Len(c) THEN [c EXCEPT ![pos] = x]
    ELSE c \o [i \in 1..(pos - Len(c) - 1) |-> Hole] \o <<x>>

-----------------------------------------------------------------------------
(* Coroutines *)

\* the working state of a coroutine, from its record t and the variables
Work(t) ==
    [now |-> now, jobs |-> jobs, nextJid |-> nextJid, index |-> index,
     events |-> events, done |-> done, removed |-> removed, latest |-> latest,
     providers |-> providers, sun |-> sun, by |-> t.by, src |-> t.src, mark |-> t.mark,
     call |-> t.call,
     status |-> "run", err |-> "", last |-> 0,
     tid |-> t.tid, kind |-> t.kind, op |-> t.op, pid |-> t.pid, reg |-> t.reg,
     jid |-> t.jid, todo |-> t.todo, data |-> t.data, ret |-> t.ret]

TaskOf(M) ==
    [tid |-> M.tid, kind |-> M.kind, op |-> M.op, pid |-> M.pid, reg |-> M.reg,
     jid |-> M.jid, by |-> M.by, src |-> M.src, mark |-> M.mark,
     call |-> M.call,
     todo |-> M.todo, data |-> M.data, ret |-> M.ret]

\* the variables take the working state M of the coroutine that replaces `old`
Commit(M, old) ==
    /\ M.nextJid <= MaxJobs + 1
    /\ jobs' = M.jobs
    /\ nextJid' = M.nextJid
    /\ index' = M.index
    /\ events' = M.events
    /\ done' = M.done
    /\ removed' = M.removed
    /\ latest' = M.latest
    /\ sun' = M.sun
    /\ tasks' = (tasks \ old) \cup (IF M.todo = <<>> THEN {} ELSE {TaskOf(M)})

\* a public call starts: its coroutine runs up to its first await
Call(op, pid, step) ==
    /\ nextTid <= MaxCalls
    /\ LET t == [tid |-> nextTid, kind |-> "op", op |-> op, pid |-> pid, reg |-> nextTid,
                 jid |-> 0, by |-> None, src |-> None, mark |-> Under(latest, pid),
                 call |-> step,
                 todo |-> <<step, [s |-> "return"]>>,
                 data |-> <<>>, ret |-> <<>>]
       IN Commit(RunSync(Work(t)), {})
    /\ nextTid' = nextTid + 1
    /\ UNCHANGED <<now, store, files, fired, before, providers>>

-----------------------------------------------------------------------------
(* The timer core (APScheduler) *)

Due(j) == j.run <= now

\* a job is due and is run: a date job leaves the job store, a cron job gets
\* its next run time; with max_instances=1 a cron job whose previous run is
\* still in progress is skipped
Fire ==
    \E j \in jobs :
        /\ j.run = now
        /\ LET nxt == IF j.trig = "cron" THEN CronNext(j.cron, now) ELSE None
               rest == (jobs \ {j}) \cup
                       (IF IsNone(nxt) THEN {} ELSE {[j EXCEPT !.run = nxt.t]})
               t == [tid |-> 0, kind |-> "fire", op |-> "fire", pid |-> j.pid,
                     reg |-> j.reg, jid |-> j.jid, by |-> [t |-> j.run], src |-> j.by,
                     mark |-> EmptyDict, call |-> None, todo |-> <<>>,
                     data |-> <<>>, ret |-> <<>>]
               M == [Work(t) EXCEPT !.jobs = rest]
               busy == \E u \in tasks : u.kind = "fire" /\ u.jid = j.jid
           IN /\ IF busy THEN Commit(M, {}) ELSE Commit(Invoke(M, j, now), {})
              /\ fired' = IF busy THEN fired ELSE Append(fired, j)
        /\ UNCHANGED <<now, store, files, nextTid, before, providers>>

\* a date job registered with a run date that has passed by more than the
\* grace time is dropped without being run
Miss ==
    \E j \in jobs :
        /\ j.late /\ Due(j)
        /\ jobs' = jobs \ {j}
        /\ UNCHANGED <<now, nextJid, index, store, files, tasks, nextTid, hist, providers, sun>>

\* time passes, once the due jobs have been processed; a tick is an hour,
\* so the store's worker threads and the loop are done with their work by then,
\* while a caller's callback or a holiday provider may take any time
Tick ==
    /\ now < MaxTime
    /\ \A j \in jobs : ~Due(j)
    /\ \A t \in tasks : Head(t.todo).s \in {"cbwait", "hol_year"}
    /\ now' = now + 1
    /\ UNCHANGED <<jobs, nextJid, index, store, files, tasks, nextTid, hist, providers, sun>>

-----------------------------------------------------------------------------
(* Coroutines resume *)

\* the caller's callback returns and the fired callback goes on
CallbackReturns ==
    \E t \in tasks :
        /\ t.todo # <<>> /\ Head(t.todo).s = "cbwait"
        /\ Commit(RunSync([Work(t) EXCEPT !.todo = Tail(@)]), {t})
        /\ UNCHANGED <<now, store, files, nextTid, fired, before, providers>>

\* the holiday provider answers and schedule_for_year goes on
ProviderAnswers ==
    \E t \in tasks :
        /\ t.todo # <<>> /\ Head(t.todo).s = "hol_year"
        /\ LET h == Head(t.todo)
               M == [Work(t) EXCEPT !.todo = Tail(@)]
           IN Commit(RunSync(ScheduleForYear(M, h.env, h.yr)), {t})
        /\ UNCHANGED <<now, store, files, nextTid, fired, before, providers>>

\* a variant of ProviderFailed in which the failure takes the jobs of the
\* schedule with it
ProviderFailedCancels(M) ==
    Raise([M EXCEPT !.jobs = {j \in @ : j.pid # M.pid},
                    !.index = [k \in DOMAIN @ \ {M.pid} |-> @[k]]],
          "ProviderError")

\* the await of prov.holidays_for_year(yr) raises; nothing catches it in
\* schedule_for_year, nor in the fired callback or the public call around it
ProviderFailed(M) == Raise(M, "ProviderError")

\* the holiday provider fails
ProviderFails ==
    \E t \in tasks :
        /\ t.todo # <<>> /\ Head(t.todo).s = "hol_year"
        /\ Commit(ProviderFailed(Work(t)), {t})
        /\ UNCHANGED <<now, store, files, nextTid, fired, before, providers>>

\* asyncio.to_thread(self._persist_read)
PersistRead ==
    \E t \in tasks :
        /\ t.todo # <<>> /\ Head(t.todo).s = "read"
        /\ tasks' = (tasks \ {t}) \cup {[t EXCEPT !.todo = Tail(@), !.data = store]}
        /\ UNCHANGED <<now, jobs, nextJid, index, store, files, nextTid, hist, providers, sun>>

\* the list _persist_upsert or remove_persisted_by_id hands to _persist_write
ToWrite(t) ==
    LET h == Head(t.todo)
    IN IF h.s = "upsert" THEN Upsert(t.data, h.id, h.spec, h.meta) ELSE Delete(t.data, h.pid)

\* asyncio.to_thread(self._persist_write, ...), when no other write is under way
PersistWrite ==
    \E t \in tasks :
        /\ t.todo # <<>> /\ Head(t.todo).s \in {"upsert", "delete"}
        /\ store' = ToWrite(t)
        /\ disk' = [disk EXCEPT !.file = Ser(store')]
        /\ intents' = intents \cup {store'}
        /\ tasks' = (tasks \ {t}) \cup {[t EXCEPT !.todo = Tail(@)]}
        /\ UNCHANGED <<now, jobs, nextJid, index, nextTid, hist, providers, sun>>

\* a variant of WriteFailed that undoes the call in memory before it raises:
\* the jobs under the call's id leave the timer core and the index
WriteFailedRollback(M) ==
    Raise([M EXCEPT !.jobs = {j \in @ : ~Covers(M.pid, j.pid)},
                    !.index = [k \in {q \in DOMAIN @ : ~Covers(M.pid, q)} |-> @[k]]],
          "OSError")

\* the await of asyncio.to_thread(self._persist_write, ...) raises what the
\* thread raised; nothing catches it up to the caller
WriteFailed(M) == Raise(M, "OSError")

\* _persist_write raises (the disk is full, the path is not writable)
PersistWriteFails ==
    \E t \in tasks :
        /\ t.todo # <<>> /\ Head(t.todo).s \in {"upsert", "delete"}
        /\ Commit(WriteFailed(Work(t)), {t})
        /\ UNCHANGED <<now, store, files, nextTid, fired, before, providers>>

\* a coroutine whose worker thread has finished goes on, up to its next await
Continue ==
    \E t \in tasks :
        /\ t.todo # <<>> /\ Head(t.todo).s \notin AwaitSteps
        /\ Commit(RunSync(Work(t)), {t})
        /\ UNCHANGED <<now, store, files, nextTid, fired, before, providers>>

-----------------------------------------------------------------------------
(* The public calls *)

TheCallback == User("cb")

\* "HH:00:00"
Time(h) == Str(<<h, 0, 0>>)

\* "Y/M/D"
Date(y, m, d) == Str(<<y, m, d>>)

\* the caller awaits its calls on one persist id one after another
Idle(pid) == \A t \in tasks : t.kind = "op" => ~Covers(pid, t.pid) /\ ~Covers(t.pid, pid)

\* add(spec, callback, persist_id=pid)
Add(specs, pids) ==
    \E spec \in specs, pid \in pids :
        /\ Idle(pid)
        /\ Call("add", pid, [s |-> "add", spec |-> spec, cb |-> TheCallback, meta |-> None, pid |-> pid])

\* the caller has no registration under pid: none was made, or it was removed
Unregistered(pid) == (\A p \in DOMAIN latest : ~Covers(pid, p)) \/ pid \in DOMAIN removed

\* add under a persist id the caller has not in use
AddNew(specs, pids) ==
    \E spec \in specs, pid \in pids :
        /\ Unregistered(pid) /\ Idle(pid)
        /\ Call("add", pid, [s |-> "add", spec |-> spec, cb |-> TheCallback, meta |-> None, pid |-> pid])

\* add_any(schedules, callback, persist_id=pid) under a persist id not in use
AddAny(lists, pids) ==
    \E schedules \in lists, pid \in pids :
        /\ Unregistered(pid) /\ Idle(pid)
        /\ Call("add_any", pid, [s |-> "add_any", schedules |-> schedules, cb |-> TheCallback,
                                 meta |-> None, pid |-> pid])

\* register_holiday_provider(name, provider)
RegisterHolidayProvider(names) ==
    \E name \in names :
        /\ name \notin providers
        /\ providers' = providers \cup {name}
        /\ UNCHANGED <<now, jobs, nextJid, index, store, files, tasks, nextTid, hist, sun>>

\* add_holiday_at(provider, time, callback, years_ahead=ya, persist_id=pid)
AddHolidayAt(names, aheads, pids) ==
    \E name \in names, ya \in aheads, pid \in pids :
        /\ Unregistered(pid) /\ Idle(pid)
        /\ Call("holiday_at", pid,
                [s |-> "holiday_at", provider |-> name, time |-> Time(1), to |-> None,
                 duration |-> None, title_contains |-> None, categories |-> None,
                 years_ahead |-> ya, cb |-> TheCallback, meta |-> None, pid |-> pid])

\* add_holiday_window(provider, from, callback, duration={"hours": 1},
\* title_contains=title, years_ahead=ya, persist_id=pid)
AddHolidayWindow(names, titles, aheads, pids) ==
    \E name \in names, title \in titles, ya \in aheads, pid \in pids :
        /\ Unregistered(pid) /\ Idle(pid)
        /\ Call("holiday_window", pid,
                [s |-> "holiday_window", provider |-> name, time |-> Time(1), to |-> None,
                 duration |-> [hours |-> 1], title_contains |-> title, categories |-> None,
                 years_ahead |-> ya, cb |-> TheCallback, meta |-> None, pid |-> pid])

\* add_annual_fixed_day(1, day, time, callback, persist_id=pid)
AddAnnualFixedDay(days, pids) ==
    \E day \in days, pid \in pids :
        /\ Unregistered(pid) /\ Idle(pid)
        /\ Call("annual_fixed", pid,
                [s |-> "annual_fixed", month |-> 1, day |-> day, time |-> Time(1),
                 cb |-> TheCallback, meta |-> None, pid |-> pid])

\* add_annual_dates(dates, time, callback, persist_id=pid)
AddAnnualDates(lists, pids) ==
    \E dates \in lists, pid \in pids :
        /\ Unregistered(pid) /\ Idle(pid)
        /\ Call("annual_dates", pid,
                [s |-> "annual_dates", dates |-> dates, time |-> Time(1),
                 cb |-> TheCallback, meta |-> None, pid |-> pid])

\* add_annual_nth_weekday(1, weekday, nth, time, callback, persist_id=pid)
AddAnnualNthWeekday(weekdays, nths, pids) ==
    \E weekday \in weekdays, nth \in nths, pid \in pids :
        /\ Unregistered(pid) /\ Idle(pid)
        /\ Call("annual_nth", pid,
                [s |-> "annual_nth", month |-> 1, weekday |-> weekday, nth |-> nth,
                 time |-> Time(1), cb |-> TheCallback, meta |-> None, pid |-> pid])

\* add_annual_nth_weekday(1, weekday, nth, time, callback, persist_id=pid),
\* for several times of the day
AddAnnualNthWeekdayAt(weekdays, nths, times, pids) ==
    \E weekday \in weekdays, nth \in nths, time \in times, pid \in pids :
        /\ Unregistered(pid) /\ Idle(pid)
        /\ Call("annual_nth", pid,
                [s |-> "annual_nth", month |-> 1, weekday |-> weekday, nth |-> nth,
                 time |-> time, cb |-> TheCallback, meta |-> None, pid |-> pid])

\* what a job does when it runs: all of the job but the handle and the history
Trig(j) == [pid |-> j.pid, trig |-> j.trig, run |-> j.run, cron |-> j.cron,
            cb |-> j.cb, payload |-> j.payload]

\* the jobs the timer core will run: all but the date jobs registered with a
\* run date that has passed
Armed == {j \in jobs : ~(j.late /\ Due(j))}

\* the process stops and a new one is constructed on the same store, with an
\* empty timer core, job index and provider registry; it stops when idle, the
\* due jobs run
Restart ==
    /\ tasks = {} /\ jobs # {} /\ before.at < 0
    /\ \A j \in jobs : ~Due(j)
    /\ jobs' = {} /\ index' = EmptyDict /\ providers' = {}
    /\ sun' = [NewSun EXCEPT !.out = sun.out]
    /\ before' = [at |-> now, trigs |-> {Trig(j) : j \in jobs}, fired |-> Len(fired)]
    /\ UNCHANGED <<now, nextJid, store, files, tasks, nextTid, events, done, removed, latest, fired>>

\* load_persisted_with_kinds(callback_resolver) (kinds) or
\* load_persisted(callback_resolver), when the new process starts up; the
\* resolver has a callback for the ids of one of the sets resolvers
LoadPersisted(kindses, resolvers) ==
    \E kinds \in kindses, resolves \in resolvers :
        /\ before.at = now /\ \A t \in tasks : t.kind # "op"
        /\ Call("reload", NoId, [s |-> "reload", resolves |-> resolves, kinds |-> kinds])

\* cancel(job_ids), with the list a registration returned
Cancel ==
    \E k \in 1..Len(done) :
        /\ done[k].res = "ok" /\ done[k].op \notin {"remove", "reload", "cancel"}
        /\ \A m \in 1..Len(done) : done[m].op = "cancel" => done[m].call.of # done[k].tid
        /\ Call("cancel", NoId, [s |-> "cancel", handles |-> done[k].ret, of |-> done[k].tid])

\* remove_persisted_by_id(pid)
RemovePersistedById(pids) ==
    \E pid \in pids :
        /\ Idle(pid)
        /\ Call("remove", pid, [s |-> "remove", pid |-> pid])

-----------------------------------------------------------------------------
(* _persist_write, system call by system call.  The worker threads of several
   calls run at once; a file descriptor stays with the file it opened when
   the file's name changes: fd tells where that file is now. *)

\* tmp = persist_path + ".tmp"; open(tmp, "w") creates or truncates the file
WriteOpen ==
    \E t \in tasks :
        /\ t.todo # <<>> /\ Head(t.todo).s \in {"upsert", "delete"}
        /\ disk' = [disk EXCEPT !.has_tmp = TRUE, !.tmp = <<>>]
        /\ intents' = intents \cup {ToWrite(t)}
        /\ tasks' = (tasks \ {t}) \cup
                    {[t EXCEPT !.todo = <<[s |-> "w_chunk", fd |-> "tmp", pos |-> 1,
                                           out |-> Ser(ToWrite(t))],
                                          [s |-> "w_replace"]>> \o Tail(@)]}
        /\ UNCHANGED <<now, jobs, nextJid, index, store, nextTid, hist, providers, sun>>

\* json.dump(data, f): one write of the buffer; the last one ends the with block
WriteChunk ==
    \E t \in tasks :
        /\ t.todo # <<>> /\ Head(t.todo).s = "w_chunk"
        /\ LET h == Head(t.todo)
           IN /\ disk' = CASE h.fd = "tmp" -> [disk EXCEPT !.tmp = Put(@, h.pos, h.out[h.pos])]
                           [] h.fd = "file" -> [disk EXCEPT !.file = Put(@, h.pos, h.out[h.pos])]
                           [] OTHER -> disk
              /\ tasks' = (tasks \ {t}) \cup
                          {[t EXCEPT !.todo = IF h.pos = Len(h.out) THEN Tail(@)
                                              ELSE <<[h EXCEPT !.pos = @ + 1]>> \o Tail(@)]}
        /\ store' = Decode(disk'.file)
        /\ UNCHANGED <<now, jobs, nextJid, index, nextTid, hist, providers, intents, sun>>

\* where the file of a descriptor is once tmp has taken the store's name
Renamed(t) ==
    IF t.todo # <<>> /\ Head(t.todo).s = "w_chunk"
    THEN [t EXCEPT !.todo = <<[Head(t.todo) EXCEPT
                                 !.fd = IF @ = "tmp" THEN "file" ELSE "gone"]>> \o Tail(@)]
    ELSE t

\* os.replace(tmp, self.persist_path); FileNotFoundError when another write
\* has renamed tmp away
WriteReplace ==
    \E t \in tasks :
        /\ t.todo # <<>> /\ Head(t.todo).s = "w_replace"
        /\ IF disk.has_tmp
           THEN /\ disk' = [has_tmp |-> FALSE, tmp |-> <<>>, file |-> disk.tmp]
                /\ store' = Decode(disk.tmp)
                /\ tasks' = {Renamed(u) : u \in tasks \ {t}} \cup {[t EXCEPT !.todo = Tail(@)]}
                /\ UNCHANGED <<jobs, nextJid, index, hist, intents, sun>>
           ELSE /\ Commit(Raise(Work(t), "FileNotFoundError"), {t})
                /\ UNCHANGED <<store, files, fired, before>>
        /\ UNCHANGED <<now, nextTid, providers>>

\* the process dies while a write is under way; a new one is constructed on the
\* files as they are
Crash ==
    /\ before.at < 0
    /\ \E t \in tasks : Head(t.todo).s \in {"w_chunk", "w_replace"}
    /\ tasks' = {} /\ jobs' = {} /\ index' = EmptyDict /\ providers' = {}
    /\ sun' = [NewSun EXCEPT !.out = sun.out]
    /\ before' = [at |-> now, trigs |-> {Trig(j) : j \in jobs}, fired |-> Len(fired)]
    /\ UNCHANGED <<now, nextJid, store, files, nextTid, events, done, removed, latest, fired>>

-----------------------------------------------------------------------------
(* Inputs *)

IdA == <<"A">>

IdB == <<"B">>

\* {"at": {"time": "01:00:00"}}
AtTime == [at |-> [time |-> Time(1)]]

\* {"at": {"date": "0/1/2", "time": "01:00:00"}}
AtOnce == [at |-> [date |-> Date(0, 1, 2), time |-> Time(1)]]

\* {"at": {"sunrise": 0}}
AtSunrise == [at |-> [sunrise |-> 0]]

\* {"at": {"sunset": -3}}: three hours before sunset
AtSunsetMinus == [at |-> [sunset |-> 0 - 3]]

\* {"at": {"sunset": 0}}
AtSunset == [at |-> [sunset |-> 0]]

\* {"from": {"date": "0/1/1", "time": "01:00:00", "for": {"hours": 1}}}
RangeOnce == [from |-> [date |-> Date(0, 1, 1), time |-> Time(1), for |-> [hours |-> 1]]]

\* {"from": {"time": "01:00:00", "for": {"hours": 1}}}
DailyFor == [from |-> [time |-> Time(1), for |-> [hours |-> 1]]]

\* {"from": {"time": "01:00:00", "for": {"minutes": 0}}}
DailyForZero == [from |-> [time |-> Time(1), for |-> [minutes |-> 0]]]

\* {"from": {"time": "02:00:00", "to": {"time": "01:00:00"}}}: over midnight
DailyTo == [from |-> [time |-> Time(2), to |-> [time |-> Time(1)]]]

\* {"from": {"sunrise": 0, "for": {"hours": 1}}}
SunFor == [from |-> [sunrise |-> 0, for |-> [hours |-> 1]]]

\* {"from": {"sunset": 0, "to": {"sunrise": 0}}}: sunset to the next sunrise
SunTo == [from |-> [sunset |-> 0, to |-> [sunrise |-> 0]]]

\* {"from": {"time": "01:00:00", "to": {"time": "00:00:00", "day": -1}}}
DailyToBack == [from |-> [time |-> Time(1), to |-> [time |-> Time(0), day |-> 0 - 1]]]

\* {"weekly": {"days": "mon,tue", "from": {"time": "02:00:00", "to": {"time": "01:00:00"}}}}
WeeklyOver == [weekly |-> [days |-> Str(<<"mon", "tue">>),
                           from |-> [time |-> Time(2), to |-> [time |-> Time(1)]]]]

\* {"from": {"sunrise": 0, "to": {"sunset": 0, "day": 1}}}: to the sunset of
\* the day after
SunToShift == [from |-> [sunrise |-> 0, to |-> [sunset |-> 0, day |-> 1]]]

\* {"weekly": {"days": "mon,tue", "from": {"time": "01:00:00", "to": {"time": "02:00:00"}}}}
Weekly == [weekly |-> [days |-> Str(<<"mon", "tue">>),
                       from |-> [time |-> Time(1), to |-> [time |-> Time(2)]]]]

\* no "at", "from" or "weekly" key
NoForm == [every |-> [time |-> Time(1)]]

\* {"weekly": {"days": "mon,xyz", "from": {"time": "01:00:00", "for": {"hours": 1}}}}
WeeklyBadDay == [weekly |-> [days |-> Str(<<"mon", "xyz">>),
                             from |-> [time |-> Time(1), for |-> [hours |-> 1]]]]

\* {"weekly": {"days": "mon", "from": {"for": {"hours": 1}}}}
WeeklyNoTime == [weekly |-> [days |-> Str(<<"mon">>), from |-> [for |-> [hours |-> 1]]]]

\* {"weekly": {"days": "mon", "from": {"time": "01:00:00"}}}
WeeklyNoEnd == [weekly |-> [days |-> Str(<<"mon">>), from |-> [time |-> Time(1)]]]

\* {"from": {"time": "01:00:00"}}
RangeNoEnd == [from |-> [time |-> Time(1)]]

\* {"from": {"date": "0/1/2", "time": "01:00:00"}}
RangeOnceNoEnd == [from |-> [date |-> Date(0, 1, 2), time |-> Time(1)]]

\* {"from": {"time": "01:00:00", "for": {}}}: a duration with no component
DailyForEmpty == [from |-> [time |-> Time(1), for |-> EmptyDict]]

\* the forms add takes
Forms == {AtTime, AtOnce, AtSunrise, AtSunsetMinus, RangeOnce, DailyFor, DailyForZero,
          DailyTo, SunFor, SunTo, Weekly}

-----------------------------------------------------------------------------
(* The specification *)

Init ==
    /\ now = 0
    /\ jobs = {}
    /\ nextJid = 1
    /\ index = EmptyDict
    /\ store = <<>>
    /\ tasks = {}
    /\ nextTid = 1
    /\ events = <<>>
    /\ done = <<>>
    /\ removed = EmptyDict
    /\ latest = EmptyDict
    /\ fired = <<>>
    /\ before = [at |-> 0 - 1, trigs |-> {}, fired |-> 0]
    /\ providers = {}
    /\ disk = [has_tmp |-> FALSE, tmp |-> <<>>, file |-> Ser(<<>>)]
    /\ intents = {<<>>}
    /\ sun = NewSun

Next ==
    \/ AddNew(Forms, {IdA})
    \/ RemovePersistedById({IdA})
    \/ Fire
    \/ Miss
    \/ Tick
    \/ CallbackReturns
    \/ PersistRead
    \/ PersistWrite
    \/ Continue

Spec == Init /\ [][Next]_vars

-----------------------------------------------------------------------------
(* Claims *)

\* C1: once remove_persisted_by_id(X) has returned, no event of X or of a child
\* "X#..." is delivered to a callback any more.
C1_SilenceAfterRemoval ==
    \A X \in DOMAIN removed :
        \A i \in (removed[X] + 1)..Len(events) : ~Covers(X, events[i].pid)

JobsUnder(js, X) == {j.jid : j \in {k \in js : Covers(X, k.pid)}}

KeysUnder(idx, X) == {k \in DOMAIN idx : Covers(X, k)}

\* C2: a firing of X that is in flight while remove_persisted_by_id(X) runs may
\* finish, but once the removal has returned no step registers a job for X,
\* creates an index entry for X or delivers an event of X.
C2_NoRearmAfterRemoval ==
    [][\A X \in DOMAIN removed \cap DOMAIN removed' :
          /\ JobsUnder(jobs', X) \subseteq JobsUnder(jobs, X)
          /\ KeysUnder(index', X) \subseteq KeysUnder(index, X)
          /\ \A i \in (Len(events) + 1)..Len(events') : ~Covers(X, events'[i].pid)]_vars

\* an event with a phase (not the wrapped event of a composite)
HasPhase(ev, phase) == Has(ev, "phase") /\ ev.phase = phase

\* the delivered event opens a window: a start event of a from-, weekly or
\* holiday-window schedule
WindowStart(e) ==
    /\ HasPhase(e.ev, "start")
    /\ Has(e.ev.spec, "from") \/ Has(e.ev.spec, "weekly")

\* an end job, or an end event, that belongs to the window the start e opened:
\* same registration, and armed by the firing that delivered e (or at the
\* registration, for a one-shot range)
SameWindow(e, reg, by) == reg = e.reg /\ (IsNone(by) \/ by.t = e.run)

EndsDelivered(i) ==
    {k \in (i + 1)..Len(events) :
        HasPhase(events[k].ev, "end") /\ SameWindow(events[i], events[k].reg, events[k].by)}

EndsArmed(e) == {j \in jobs : j.payload.phase = "end" /\ SameWindow(e, j.reg, j.by)}

\* the firing that delivered e has yet to register the end job
EndsComing(e) ==
    {t \in tasks : /\ t.kind = "fire" /\ t.jid = e.jid /\ t.by.t = e.run
                   /\ \E k \in 1..Len(t.todo) : t.todo[k].s = "endjob"}

\* a removal of the schedule was called after it was registered
RemovalCalled(e) ==
    \/ \E t \in tasks : t.op = "remove" /\ t.tid > e.reg /\ Covers(t.pid, e.pid)
    \/ \E k \in 1..Len(done) :
          done[k].op = "remove" /\ done[k].tid > e.reg /\ Covers(done[k].pid, e.pid)

\* C3: every delivered start event of a window has exactly one end event,
\* delivered after it or still to come, and the end's scheduled instant is
\* strictly later than the start's (unless the schedule is being removed).
C3_StartHasOneLaterEnd ==
    \A i \in 1..Len(events) :
        LET e == events[i]
        IN WindowStart(e) /\ ~RemovalCalled(e) =>
             /\ Cardinality(EndsDelivered(i)) + Cardinality(EndsArmed(e))
                  + Cardinality(EndsComing(e)) = 1
             /\ \A k \in EndsDelivered(i) : events[k].ev.scheduled_for > e.ev.scheduled_for
             /\ \A j \in EndsArmed(e) : j.run > e.ev.scheduled_for

-----------------------------------------------------------------------------
(* Registering twice under one persist id *)

ReplaceForms == {AtTime, DailyFor}

NextReplace ==
    \/ Add(ReplaceForms, {IdA})
    \/ Fire
    \/ Miss
    \/ Tick
    \/ CallbackReturns
    \/ PersistRead
    \/ PersistWrite
    \/ Continue

SpecReplace == Init /\ [][NextReplace]_vars

\* no public call is in progress
CallsOver == \A t \in tasks : t.kind # "op"

\* C7: once add(S2, persist_id=X) has returned after add(S1, persist_id=X),
\* every job armed for X comes from the latest registration, and no instant
\* delivers the same event of X twice.
C7_ReAddReplaces ==
    /\ CallsOver => \A j \in jobs : j.pid \in DOMAIN latest => j.reg = latest[j.pid]
    /\ \A i, k \in 1..Len(events) :
          i < k /\ events[i].pid = events[k].pid /\ events[i].pid # NoId
            => events[i].ev # events[k].ev

-----------------------------------------------------------------------------
(* Composite schedules *)

AnyLists == {<<AtTime, AtSunset>>, <<AtSunrise, DailyFor>>}

NextAny ==
    \/ AddAny(AnyLists, {IdA})
    \/ RemovePersistedById({IdA})
    \/ Fire
    \/ Miss
    \/ Tick
    \/ CallbackReturns
    \/ PersistRead
    \/ PersistWrite
    \/ Continue

SpecAny == Init /\ [][NextAny]_vars

\* the job belongs to a child "X#i" of a composite
ChildJob(j) == Len(j.pid) > 2 /\ j.pid[Len(j.pid) - 1] = "#"

\* the timer core runs job j in this step
Fires(j) == fired' = Append(fired, j)

\* C4: when the timer core runs the start job of a child of a composite, the
\* caller's callback is invoked exactly once, with an event whose triggered_by
\* is that child's start event; the jobs of the other children stay armed; a
\* child's end job invokes nothing, and nothing but a firing invokes the
\* callback.
C4_ChildFiresOnce ==
    [][/\ \A j \in jobs :
             Fires(j) /\ ChildJob(j) =>
               /\ jobs \ {k \in jobs : k.jid = j.jid} \subseteq jobs'
               /\ IF j.payload.phase = "start"
                  THEN /\ Len(events') = Len(events) + 1
                       /\ SubSeq(events', 1, Len(events)) = events
                       /\ LET e == events'[Len(events')]
                          IN /\ e.cb = TheCallback.name
                             /\ DOMAIN e.ev = {"triggered_by", "meta"}
                             /\ e.ev.triggered_by.phase = "start"
                             /\ e.ev.triggered_by.spec = j.payload.spec
                             /\ e.ev.triggered_by.meta.persist_id = j.pid
                  ELSE events' = events
       /\ fired' = fired => events' = events]_vars

\* child A of the composite has fired and invoked the callback while child B
\* is armed, and later child B has fired too
C4_Witness ==
    \E i, k \in 1..Len(events) :
        /\ i < k
        /\ events[i].pid = ChildId(IdA, 0) /\ events[k].pid = ChildId(IdA, 1)
        /\ Has(events[i].ev, "triggered_by") /\ Has(events[k].ev, "triggered_by")

\* C8: once remove_persisted_by_id(X) has returned, the timer core has no job
\* of X or of a child "X#i", the job index has no such key and the store has
\* no such record.
C8_RemovalLeavesNothing ==
    \A X \in DOMAIN removed :
        /\ JobsUnder(jobs, X) = {}
        /\ KeysUnder(index, X) = {}
        /\ \A i \in 1..Len(store) : ~Covers(X, store[i].id)

-----------------------------------------------------------------------------
(* Self-rearming chains *)

Fake == "fake"

NextChain ==
    \/ RegisterHolidayProvider({Fake})
    \/ AddNew({AtSunrise, AtSunsetMinus, SunFor}, {IdA})
    \/ AddHolidayAt({Fake}, {0, 1}, {IdA})
    \/ AddHolidayWindow({Fake}, {Str(<<"f", "a", "i">>)}, {0, 1}, {IdA})
    \/ AddAnnualNthWeekday({[int |-> 0]}, {1}, {IdA})
    \/ Fire
    \/ Miss
    \/ Tick
    \/ CallbackReturns
    \/ ProviderAnswers
    \/ PersistRead
    \/ PersistWrite
    \/ Continue

SpecChain == Init /\ [][NextChain]_vars

\* C9: a start job that a firing has armed (the next occurrence of a sun,
\* holiday or nth-weekday chain) is scheduled strictly later than the
\* scheduled instant of that firing.
C9_RearmStrictlyLater ==
    \A j \in jobs : ~IsNone(j.by) /\ j.payload.phase = "start" => j.run > j.by.t

-----------------------------------------------------------------------------
(* Restart and reload: a schedule is registered, the process is restarted
   before the schedule has fired, its providers are registered again and the
   store is reloaded *)

ReloadForms == {AtTime, AtSunrise, DailyFor, Weekly}

\* the ids a resolver may know: every stored id, or the caller's own ids
AllIds == {IdA, ChildId(IdA, 0), ChildId(IdA, 1)}

NextReload ==
    \/ RegisterHolidayProvider({Fake})
    \/ AddNew(ReloadForms, {IdA})
    \/ AddAny({<<AtTime, AtSunset>>}, {IdA})
    \/ AddAnnualFixedDay({2}, {IdA})
    \/ AddAnnualDates({<<(<<1, 1>>), (<<1, 3>>)>>}, {IdA})
    \/ AddAnnualNthWeekday({[int |-> 1]}, {1}, {IdA})
    \/ AddHolidayAt({Fake}, {1}, {IdA})
    \/ AddHolidayWindow({Fake}, {None}, {1}, {IdA})
    \/ (fired = <<>> /\ Restart)
    \/ (Fake \in providers /\ LoadPersisted({TRUE}, {AllIds, {IdA}}))
    \/ Fire
    \/ Miss
    \/ Tick
    \/ CallbackReturns
    \/ ProviderAnswers
    \/ PersistRead
    \/ PersistWrite
    \/ Continue

SpecReload == Init /\ [][NextReload]_vars

\* a reload whose resolver knows every stored id has run to its end in the
\* new process, in the hour the process was started and before any job has run
Reloaded ==
    /\ before.at = now /\ tasks = {} /\ before.fired = Len(fired)
    /\ \E k \in 1..Len(done) : done[k].op = "reload" /\ done[k].call.resolves = AllIds

\* C5: after a restart and one reload, no two armed jobs of one persist id
\* stand for the same trigger: none has the instant and the phase of another.
C5_ReloadArmsOnce ==
    Reloaded =>
      \A j, k \in Armed :
          j.jid # k.jid /\ j.pid # NoId
            => ~(j.pid = k.pid /\ j.run = k.run /\ j.payload.phase = k.payload.phase)

\* C6: after a restart and a reload the reload has not failed, and the armed
\* jobs do what the jobs armed before the restart did: same persist ids,
\* instants, phases and callables.
C6_RoundTrip ==
    Reloaded =>
      /\ \A k \in 1..Len(done) : done[k].op = "reload" => done[k].res = "ok"
      /\ {Trig(j) : j \in Armed} = before.trigs

-----------------------------------------------------------------------------
(* Concurrent calls on the store *)

NextStore ==
    \/ AddNew({AtTime}, {IdA, IdB})
    \/ RemovePersistedById({IdA, IdB})
    \/ PersistRead
    \/ PersistWrite
    \/ Continue

SpecStore == Init /\ [][NextStore]_vars

\* the call done[k] is the last call made on its persist id
LastOn(k) == \A m \in 1..Len(done) : done[m].pid = done[k].pid => done[m].tid <= done[k].tid

Stored(pid) == \E i \in 1..Len(store) : store[i].id = pid

\* C10: once the calls have completed, the store holds the record of every
\* persist id whose last call was a registration, and no record of a persist
\* id whose last call was a removal.
C10_StoreReflectsCalls ==
    CallsOver =>
      \A k \in 1..Len(done) :
          LastOn(k) /\ done[k].res = "ok" =>
            /\ done[k].op = "add" => Stored(done[k].pid)
            /\ done[k].op = "remove" => ~Stored(done[k].pid)

-----------------------------------------------------------------------------
(* The store file under writes that overlap *)

NextFile ==
    \/ AddNew({AtTime}, {IdA, IdB})
    \/ RemovePersistedById({IdA, IdB})
    \/ PersistRead
    \/ WriteOpen
    \/ WriteChunk
    \/ WriteReplace
    \/ Crash
    \/ Continue

SpecFile == Init /\ [][NextFile]_vars

\* C11: in every reachable state, the state a crash leaves included, the store
\* file holds the complete text of a record list that was handed to
\* _persist_write
C11_StoreFileComplete == \E data \in intents : disk.file = Ser(data)

-----------------------------------------------------------------------------
(* Store writes that fail *)

NextFail ==
    \/ AddNew({AtTime, AtOnce}, {IdA})
    \/ RemovePersistedById({IdA})
    \/ Fire
    \/ Miss
    \/ Tick
    \/ PersistRead
    \/ PersistWrite
    \/ PersistWriteFails
    \/ Continue

SpecFail == Init /\ [][NextFail]_vars

\* the call that raised last, when the step is one in which a call raises
Raised == done'[Len(done')]

\* C12: a store write that fails ends the call with the error, and leaves the
\* timer core and the job index as they are: the jobs an add registered stay
\* armed, and the jobs a removal cancelled stay cancelled, so that after a
\* removal that raised no job and no index key of the id is left (until the id
\* is registered again)
C12_WriteFailureKeepsMemory ==
    /\ [](\A k \in 1..Len(done) :
            /\ done[k].op = "remove" /\ done[k].res = "OSError"
            /\ \A p \in DOMAIN latest : Covers(done[k].pid, p) => latest[p] < done[k].tid
            => JobsUnder(jobs, done[k].pid) = {} /\ KeysUnder(index, done[k].pid) = {})
    /\ [][(\E t \in tasks : t.todo # <<>> /\ Head(t.todo).s \in {"upsert", "delete"}
                             /\ t \notin tasks' /\ store' = store /\ Len(done') = Len(done) + 1)
          => /\ Raised.res = "OSError" /\ Raised.op \in {"add", "remove"}
             /\ jobs' = jobs /\ index' = index]_vars

\* an add whose store write failed has delivered an event at its due time,
\* and a removal whose store write failed came after
C12_Witness ==
    \E k, m \in 1..Len(done) :
        /\ done[k].op = "add" /\ done[k].res = "OSError"
        /\ \E i \in 1..Len(events) : events[i].reg = done[k].tid /\ events[i].at = events[i].run
        /\ m > k /\ done[m].op = "remove" /\ done[m].res = "OSError"

-----------------------------------------------------------------------------
(* Specifications add must refuse *)

InvalidForms == {NoForm, WeeklyBadDay, WeeklyNoTime, WeeklyNoEnd, RangeNoEnd, RangeOnceNoEnd,
                 DailyForEmpty}

NextInvalid ==
    \/ Add(InvalidForms, {IdA})
    \/ Fire
    \/ Tick
    \/ CallbackReturns
    \/ PersistRead
    \/ PersistWrite
    \/ Continue

SpecInvalid == Init /\ [][NextInvalid]_vars

\* C13: an add with an invalid specification raises from the call itself,
\* before it gives up control: no such call is in progress, each has ended
\* with an error, no job carries such a specification and no record holds one
C13_InvalidSpecRefused ==
    /\ \A t \in tasks : t.kind = "op" => t.call.spec \notin InvalidForms
    /\ \A k \in 1..Len(done) : done[k].call.spec \in InvalidForms => done[k].res # "ok"
    /\ \A j \in jobs : j.payload.spec \notin InvalidForms
    /\ \A i \in 1..Len(store) : store[i].spec \notin InvalidForms

-----------------------------------------------------------------------------
(* cancel *)

NextCancel ==
    \/ AddNew({AtTime, AtSunrise, DailyFor}, {IdA})
    \/ AddAnnualNthWeekday({[int |-> 0]}, {1}, {IdA})
    \/ Cancel
    \/ Fire
    \/ Miss
    \/ Tick
    \/ CallbackReturns
    \/ PersistRead
    \/ PersistWrite
    \/ Continue

SpecCancel == Init /\ [][NextCancel]_vars

\* C14: every handle a registration returns is the handle of a job, and once
\* the returned list has been cancelled the timer core holds no job of that
\* registration, so that it delivers no further event
C14_CancelDisarms ==
    \A k \in 1..Len(done) :
        /\ done[k].res = "ok" /\ done[k].op \notin {"remove", "reload", "cancel"}
           => \A i \in 1..Len(done[k].ret) : done[k].ret[i].job
        /\ done[k].op = "cancel" => \A j \in jobs : j.reg # done[k].call.of

-----------------------------------------------------------------------------
(* Removal of an id nothing is registered under *)

NextNoop ==
    \/ AddNew({AtTime}, {IdA})
    \/ RemovePersistedById({IdB})
    \/ Fire
    \/ Tick
    \/ PersistRead
    \/ PersistWrite
    \/ Continue

SpecNoop == Init /\ [][NextNoop]_vars

\* pid has no index entry and no stored record, nor has a child of it
Unknown(pid) ==
    /\ \A p \in DOMAIN index : ~IndexMatch(p, pid)
    /\ \A i \in 1..Len(store) : ~StoreMatch(store[i].id, pid)

\* the removal t has read the store and its write is the step taken
Rewrites(t) ==
    /\ t.op = "remove" /\ t.todo # <<>> /\ Head(t.todo).s = "delete"
    /\ [t EXCEPT !.todo = Tail(@)] \in tasks'

\* C15: remove_persisted_by_id(X) for an id X with no index entry and no
\* stored record raises nothing and leaves the armed jobs, the job index and
\* the stored records as they were, the first time and the second
C15_UnknownRemovalNoOp ==
    /\ [](\A k \in 1..Len(done) : done[k].op = "remove" => done[k].res = "ok")
    /\ [][(\E t \in tasks' \ tasks : t.op = "remove" /\ t.tid = nextTid)
            => jobs' = jobs /\ index' = index /\ store' = store]_vars
    /\ [][(\E t \in tasks : Rewrites(t) /\ Unknown(t.pid)) => store' = store]_vars

-----------------------------------------------------------------------------
(* Reload with a resolver that does not know every stored id *)

\* the record add writes for spec under pid
Rec(pid, spec) == [id |-> pid, spec |-> spec, meta |-> SetDefault(EmptyDict, "persist_id", pid)]

SkipForms == {AtTime, AtOnce}

\* a process constructed on the store a previous process has left: records of
\* IdA and IdB, in either order
InitStored ==
    /\ now = 0
    /\ jobs = {}
    /\ nextJid = 1
    /\ index = EmptyDict
    /\ \E sa, sb \in SkipForms :
           store \in {<<Rec(IdA, sa), Rec(IdB, sb)>>, <<Rec(IdB, sb), Rec(IdA, sa)>>}
    /\ tasks = {}
    /\ nextTid = 1
    /\ events = <<>>
    /\ done = <<>>
    /\ removed = EmptyDict
    /\ latest = EmptyDict
    /\ fired = <<>>
    /\ before = [at |-> 0, trigs |-> {}, fired |-> 0]
    /\ providers = {}
    /\ disk = [has_tmp |-> FALSE, tmp |-> <<>>, file |-> Ser(store)]
    /\ intents = {store}
    /\ sun = NewSun

NextSkip ==
    \/ LoadPersisted({TRUE, FALSE}, {{IdA}, {IdB}, {}})
    \/ Fire
    \/ Tick
    \/ PersistRead
    \/ PersistWrite
    \/ Continue

SpecSkip == InitStored /\ [][NextSkip]_vars

\* the reloads, under way or over
Reloads == {t.call : t \in {u \in tasks : u.op = "reload"}}
             \cup {done[k].call : k \in {m \in 1..Len(done) : done[m].op = "reload"}}

\* no reload had a callback for pid
Unresolved(pid) == \A c \in Reloads : pid \notin c.resolves

\* the records of pid in the list data
RecordsOf(data, pid) == {data[i] : i \in {k \in 1..Len(data) : data[k].id = pid}}

\* C16: a stored record whose id the resolver of a reload does not resolve
\* gets no trigger and stays in the store as it was, and the records the
\* resolver does resolve are registered by the same reload, wherever they
\* stand in the list.
C16_UnresolvedSkipped ==
    /\ [](\A pid \in {IdA, IdB} :
            Unresolved(pid) => /\ JobsUnder(jobs, pid) = {}
                               /\ KeysUnder(index, pid) = {}
                               /\ pid \notin DOMAIN latest
                               /\ Stored(pid))
    /\ [][\A pid \in {IdA, IdB} :
            Unresolved(pid)' => RecordsOf(store', pid) = RecordsOf(store, pid)]_vars
    /\ [](\A k \in 1..Len(done) :
            done[k].op = "reload" =>
              /\ done[k].res = "ok"
              /\ \A pid \in done[k].call.resolves :
                     pid \in DOMAIN latest /\ latest[pid] >= done[k].tid)

\* the resolver knew IdB alone: IdB's trigger is armed and IdA has none,
\* with IdA's record before IdB's in the store
C16_Witness ==
    /\ \E k \in 1..Len(done) : done[k].op = "reload" /\ done[k].call.resolves = {IdB}
    /\ Unresolved(IdA) /\ Stored(IdA) /\ store[1].id = IdA
    /\ JobsUnder(jobs, IdB) # {} /\ JobsUnder(jobs, IdA) = {}

-----------------------------------------------------------------------------
(* Calls made one after another on a store that holds records *)

\* the caller has awaited the call made before
Alone == \A t \in tasks : t.kind # "op"

NextSeq ==
    \/ (Alone /\ Add({AtTime, DailyFor}, {IdA, IdB}))
    \/ (Alone /\ AddAny({<<AtTime, AtOnce>>}, {IdA}))
    \/ (Alone /\ RemovePersistedById({IdA, IdB}))
    \/ LoadPersisted({TRUE, FALSE}, {{IdA, IdB}, {IdB}})
    \/ PersistRead
    \/ PersistWrite
    \/ Continue

SpecSeq == InitStored /\ [][NextSeq]_vars

\* the ids of the records of the list data
IdsOf(data) == {data[i].id : i \in 1..Len(data)}

\* the step taken is the write of the upsert of t
Upserts(t) ==
    /\ t.todo # <<>> /\ Head(t.todo).s = "upsert"
    /\ [t EXCEPT !.todo = Tail(@)] \in tasks'

-----------------------------------------------------------------------------
(* Daily schedules at a fixed time *)

\* {"at": {"time": T}} for every hour T of the day
AtTimes == {[at |-> [time |-> Time(h)]] : h \in 0..(DayLen - 1)}

NextDaily ==
    \/ AddNew(AtTimes, {IdA, IdB})
    \/ Fire
    \/ Tick
    \/ PersistRead
    \/ PersistWrite
    \/ Continue

SpecDaily == Init /\ [][NextDaily]_vars

\* the instants at which the job j has delivered an event
RunsOf(j) == {events[k].at : k \in {m \in 1..Len(events) : events[m].jid = j.jid}}

-----------------------------------------------------------------------------
(* What an event carries *)

\* the public calls made so far, by task id
Calls == {[tid |-> t.tid, call |-> t.call] : t \in {u \in tasks : u.kind = "op"}}
           \cup {[tid |-> done[k].tid, call |-> done[k].call] : k \in 1..Len(done)}

\* the event e has the four fields of the callback contract
FullEvent(e) ==
    /\ Has(e, "phase") /\ Has(e, "scheduled_for") /\ Has(e, "spec") /\ Has(e, "meta")
    /\ e.phase \in {"start", "end"}

\* C19: every event handed to the caller's callback has a phase, start or
\* end, the scheduled instant, the spec and the meta; the spec is the one
\* given to the add call the event goes back to, and the meta names the
\* persist id of the call.
C19_EventContract ==
    \A k \in 1..Len(events) :
        LET e == events[k].ev
        IN /\ FullEvent(e)
           /\ \A c \in Calls :
                  c.tid = events[k].reg =>
                    /\ c.call.s = "add" => e.spec = c.call.spec
                    /\ Get(e.meta, "persist_id", NoId) = c.call.pid

-----------------------------------------------------------------------------
(* The chain of an at-sunrise / at-sunset schedule *)

SunAtForms == {AtSunrise, AtSunset, AtSunsetMinus}

NextSunAt ==
    \/ AddNew(SunAtForms, {IdA})
    \/ Fire
    \/ Miss
    \/ Tick
    \/ CallbackReturns
    \/ PersistRead
    \/ PersistWrite
    \/ Continue

SpecSunAt == Init /\ [][NextSunAt]_vars

\* today's sun event of the spec `at` plus its offset, seen at the instant t,
\* or tomorrow's when today's is not after t
SunAtDue(at, t) ==
    LET which == IF Has(at, "sunrise") THEN "sunrise" ELSE "sunset"
        dt == SunOf(DateOf(t), which) + at[which]
    IN IF dt > t THEN dt ELSE SunOf(DateOf(t) + 1, which) + at[which]

\* the running fired callback of a sun-at job waits for the caller's callback
SunAtWaits(t) == t.kind = "fire" /\ t.todo # <<>> /\ Head(t.todo).s = "cbwait"
                   /\ Head(Tail(t.todo)).s = "sun_at_next"

\* C20: the registration of an at-sunrise / at-sunset schedule arms one
\* one-shot, at today's sun event plus offset or at tomorrow's; a firing
\* hands a start event to the caller's callback before any successor is
\* registered; when the firing completes one successor is armed, at an
\* instant after the current time.
C20_SunAtChain ==
    /\ [][\A t \in tasks' :
            t.kind = "op" /\ t.tid = nextTid =>
              \E j \in jobs' :
                  /\ jobs' = jobs \cup {j} /\ j \notin jobs
                  /\ j.trig = "date" /\ j.run = SunAtDue(t.call.spec.at, now)]_vars
    /\ [][\A t \in tasks' \ tasks :
            SunAtWaits(t) =>
              /\ Len(events') = Len(events) + 1
              /\ events'[Len(events')].ev.phase = "start"
              /\ events'[Len(events')].ev.scheduled_for = t.by.t
              /\ jobs' \subseteq jobs]_vars
    /\ [][\A t \in tasks \ tasks' :
            SunAtWaits(t) =>
              \E j \in jobs' : jobs' = jobs \cup {j} /\ j \notin jobs
                               /\ j.trig = "date" /\ j.run > now /\ events' = events]_vars
    /\ [](Cardinality({j \in jobs : j.cb.k = "sun_at"}) + Cardinality({t \in tasks : SunAtWaits(t)})
            <= Cardinality({k \in 1..Len(done) : done[k].op = "add"})
                 + Cardinality({t \in tasks : t.kind = "op"}))

-----------------------------------------------------------------------------
(* The cycles of a sun-relative range *)

SunRangeForms == {SunFor, SunTo, SunToShift}

NextSunRange ==
    \/ AddNew(SunRangeForms, {IdA})
    \/ Fire
    \/ Miss
    \/ Tick
    \/ CallbackReturns
    \/ PersistRead
    \/ PersistWrite
    \/ Continue

SpecSunRange == Init /\ [][NextSunRange]_vars

\* the phases of the events of the registration reg, in the order delivered
RECURSIVE PhasesOf(_, _)
PhasesOf(evs, reg) ==
    IF evs = <<>> THEN <<>>
    ELSE (IF Head(evs).reg = reg THEN <<Head(evs).ev.phase>> ELSE <<>>) \o PhasesOf(Tail(evs), reg)

\* start, end, start, end, ...
Alternates(ph) ==
    \A i \in 1..Len(ph) : ph[i] = IF i % 2 = 1 THEN "start" ELSE "end"

\* C21: a sun-relative range has the start job of its next cycle registered
\* only once the end job of the current cycle has run (the two are never
\* armed together), and its events alternate start, end, start, end.
C21_StartEndAlternate ==
    /\ \A j, k \in jobs :
           j.reg = k.reg /\ j.cb.k = "sun_range" => k.payload.phase # "end"
    /\ \A c \in Calls : Alternates(PhasesOf(events, c.tid))

-----------------------------------------------------------------------------
(* Windows that end at a clock time or at a sun anchor *)

RollForms == {DailyTo, SunTo, SunToShift, WeeklyOver, DailyToBack}

NextRoll ==
    \/ AddNew(RollForms, {IdA})
    \/ Fire
    \/ Miss
    \/ Tick
    \/ CallbackReturns
    \/ PersistRead
    \/ PersistWrite
    \/ Continue

SpecRoll == Init /\ [][NextRoll]_vars

\* C22: the end one-shot a start firing registers for a window that ends at
\* a clock time or a sun anchor is scheduled strictly after the start of the
\* window, a day after the computed end when that one is not after the start.
C22_EndAfterStart ==
    \A j \in jobs :
        j.payload.phase = "end" /\ ~IsNone(j.by) =>
          /\ j.run > j.by.t
          /\ Has(j.payload.spec, "from") =>
               LET frm == j.payload.spec.from
                   to_date == DateOf(j.by.t) + Get(frm.to, "day", 0)
                   end0 == IF Has(frm.to, "time") THEN Combine(to_date, ParseHhmmss(frm.to.time))
                           ELSE IF Has(frm.to, "sunrise") THEN Sunrise(to_date) + frm.to.sunrise
                           ELSE Sunset(to_date) + frm.to.sunset
               IN j.run = IF end0 <= j.by.t THEN end0 + DayLen ELSE end0

-----------------------------------------------------------------------------
(* The chain of an annual nth-weekday schedule *)

NextNth ==
    \/ AddAnnualNthWeekdayAt({[int |-> 0], [int |-> 1]}, {1, 2, 0 - 1}, {Time(0), Time(1)}, {IdA})
    \/ Fire
    \/ Miss
    \/ Tick
    \/ CallbackReturns
    \/ PersistRead
    \/ PersistWrite
    \/ Continue

SpecNth == Init /\ [][NextNth]_vars

\* the armed jobs of the nth-weekday chain registered by the call tid
NthArmed(tid) == {j \in Armed : j.cb.k = "nth" /\ j.reg = tid}

\* the firings of the chain that have yet to arm the successor
NthRunning(tid) == {t \in tasks : t.kind = "fire" /\ t.reg = tid}

\* C23: an nth-weekday schedule never has two triggers for one year, and
\* from the return of the registration on it has one trigger pending, or
\* a firing on its way to arm the next year's.
C23_OnePendingPerYear ==
    \A k \in 1..Len(done) :
        done[k].op = "annual_nth" /\ done[k].res = "ok" =>
          /\ \A i, j \in {q \in jobs : q.cb.k = "nth" /\ q.reg = done[k].tid} :
                 i.cb.env.year = j.cb.env.year => i = j
          /\ Cardinality(NthArmed(done[k].tid)) + Cardinality(NthRunning(done[k].tid)) = 1

-----------------------------------------------------------------------------
(* The horizon of a holiday schedule *)

\* the armed start jobs of the holiday schedule registered by the call tid
HolidayArmed(tid) ==
    {j \in Armed : j.reg = tid /\ j.cb.k \in {"holiday_at", "holiday_window"}}

\* C24: no holiday date has two armed triggers of one schedule, at the
\* registration and after any firings.
C24_OneTriggerPerHoliday ==
    \A c \in Calls :
        \A i, j \in HolidayArmed(c.tid) : i.run = j.run => i = j

-----------------------------------------------------------------------------
(* A holiday provider that fails *)

NextProvider ==
    \/ RegisterHolidayProvider({Fake})
    \/ AddHolidayAt({Fake}, {1}, {IdA})
    \/ AddHolidayWindow({Fake}, {None}, {1}, {IdA})
    \/ AddNew({AtTime}, {IdB})
    \/ Fire
    \/ Miss
    \/ Tick
    \/ CallbackReturns
    \/ ProviderAnswers
    \/ ProviderFails
    \/ PersistRead
    \/ PersistWrite
    \/ Continue

SpecProvider == Init /\ [][NextProvider]_vars

\* the fired callback t of a holiday schedule is at its query of the provider
Requeries(t) == t.kind = "fire" /\ t.todo # <<>> /\ Head(t.todo).s = "hol_year"

\* the start event of the firing t
StartOf(t) ==
    {k \in 1..Len(events) : events[k].jid = t.jid /\ HasPhase(events[k].ev, "start")}

-----------------------------------------------------------------------------
(* The cache of the sun provider: lookups made by a caller of the provider,
   for dates up to CacheBack days before the epoch, beside a sunrise schedule
   whose lookups go through the same cache. *)

CacheBack == 5

LookupDates == {0 - CacheBack, 1 - CacheBack, 0}

\* sunrise(on_date) / sunset(on_date)
SunLookup(dates, whichs) ==
    \E d \in dates, w \in whichs :
        /\ sun' = GetCached(sun, <<d, w>>, DateOf(now))
        /\ UNCHANGED <<now, jobs, nextJid, index, store, files, tasks, nextTid, hist, providers>>

NextSun ==
    \/ SunLookup(LookupDates, {"sunrise", "sunset"})
    \/ AddNew({AtSunrise}, {IdA})
    \/ Fire
    \/ Tick
    \/ CallbackReturns
    \/ PersistRead
    \/ PersistWrite
    \/ Continue

SpecSun == Init /\ [][NextSun]_vars

\* C26: a lookup of a key the cache holds leaves the provider as it is; a step
\* that writes into the cache leaves no key dated more than 5 days before
\* today, keeps every key dated today minus 5 days or later with its instant,
\* and evicts nothing else.
C26_CacheSweep ==
    /\ [](\A k \in DOMAIN sun.cache : GetCached(sun, k, DateOf(now)) = sun)
    /\ [][sun' # sun /\ before' = before =>
            LET today == DateOf(now')
            IN /\ \A k \in DOMAIN sun'.cache : k[1] >= today - 5
               /\ \A k \in DOMAIN sun.cache :
                    k[1] >= today - 5 => k \in DOMAIN sun'.cache /\ sun'.cache[k] = sun.cache[k]
               /\ \A k \in sun'.out : k[1] < today - 5]_vars

\* a write has evicted a key of six days ago and kept one of five days ago
C26_Witness ==
    /\ \E k \in sun.out : k[1] = DateOf(now) - 6
    /\ \E k \in DOMAIN sun.cache : k[1] = DateOf(now) - 5
    /\ \E k \in DOMAIN sun.cache : k[1] = DateOf(now) + 1

-----------------------------------------------------------------------------
(* Removal of an id beside ids that begin with it *)

IdAB == <<"A", "B">>

IdA1 == <<"A", "1">>

NextFrame ==
    \/ AddNew({AtTime}, {IdAB, IdA1})
    \/ RemovePersistedById({IdA})
    \/ Fire
    \/ Tick
    \/ PersistRead
    \/ PersistWrite
    \/ Continue

SpecFrame == Init /\ [][NextFrame]_vars

\* the step taken is one of remove_persisted_by_id(X): its call, its read of
\* the store, its write or its return
RemovalStep(X) ==
    \E t \in (tasks \ tasks') \cup {u \in tasks' : u.tid = nextTid} :
        t.kind = "op" /\ t.op = "remove" /\ t.pid = X

\* C27: no step of remove_persisted_by_id(X) changes the armed jobs, the index
\* entry or the stored records of an id that is neither X nor X followed by
\* "#" and a suffix, ids that begin with X among them.
C27_RemovalFrame ==
    [][RemovalStep(IdA) =>
         \A p \in {IdAB, IdA1} :
            /\ {j \in jobs' : j.pid = p} = {j \in jobs : j.pid = p}
            /\ (p \in DOMAIN index') = (p \in DOMAIN index)
            /\ p \in DOMAIN index => index'[p] = index[p]
            /\ RecordsOf(store', p) = RecordsOf(store, p)]_vars

-----------------------------------------------------------------------------
(* Registrations that raise part of the way: a composite whose second child
   is invalid or whose store write fails, a holiday schedule whose provider
   fails for a later year *)

NextPartial ==
    \/ RegisterHolidayProvider({Fake})
    \/ AddAny({<<AtTime, NoForm>>, <<AtTime, AtOnce>>}, {IdA})
    \/ AddHolidayAt({Fake}, {1}, {IdA})
    \/ Fire
    \/ Miss
    \/ Tick
    \/ CallbackReturns
    \/ ProviderAnswers
    \/ ProviderFails
    \/ PersistRead
    \/ PersistWrite
    \/ PersistWriteFails
    \/ Continue

SpecPartial == Init /\ [][NextPartial]_vars

\* every call made on X has raised, and none is in progress
FailedOnly(X) ==
    /\ \E k \in 1..Len(done) : done[k].pid = X
    /\ \A k \in 1..Len(done) : done[k].pid = X => done[k].res # "ok"
    /\ \A t \in tasks : t.kind = "op" => t.pid # X

\* C28: when the registrations made under X have all raised, no job of X or
\* of a child of X is armed, no index entry is theirs and no record of theirs
\* is in the store.
C28_FailedRegistrationLeavesNothing ==
    \A X \in {IdA} :
        FailedOnly(X) => /\ JobsUnder(jobs, X) = {}
                         /\ KeysUnder(index, X) = {}
                         /\ \A i \in 1..Len(store) : ~Covers(X, store[i].id)

-----------------------------------------------------------------------------
(* The job index against the timer core *)

\* the ids of the jobs pending in the timer core
Pending == {j.jid : j \in jobs}

\* C29: every job id the index holds under a persist id is the id of a job
\* pending in the timer core: the ids of one-shots that have run and of
\* cancelled jobs are not in it.
C29_IndexPending == \A p \in DOMAIN index : index[p] \subseteq Pending

-----------------------------------------------------------------------------
(* The end of a window that is a child of a composite *)

\* the event log entry e was delivered by a job of a child "X#i"
ChildEvent(e) == Len(e.pid) > 2 /\ e.pid[Len(e.pid) - 1] = "#"

\* C30: the caller's callback of a composite is invoked for the start events
\* of its children only: every event delivered through a child wraps a start
\* event; when the start callback of a window child has returned, the end
\* one-shot of the window is registered under the child's id; and when the
\* timer core runs a child's end job no event is delivered.
C30_CompositeStartOnly ==
    /\ [](\A i \in 1..Len(events) :
            ChildEvent(events[i]) => /\ Has(events[i].ev, "triggered_by")
                                     /\ events[i].ev.triggered_by.phase = "start")
    /\ [][\A t \in tasks :
            t.kind = "fire" /\ Len(t.todo) >= 2 /\ Head(t.todo).s = "cbwait"
            /\ t.todo[2].s = "endjob" /\ t.todo[2].cb.k = "any" /\ t \notin tasks'
            => \E j \in jobs' \ jobs : /\ j.payload.phase = "end" /\ j.pid = t.todo[2].pid
                                       /\ j.run = t.todo[2].run_dt /\ j.cb.k = "any"]_vars
    /\ [][\A j \in jobs :
            Fires(j) /\ ChildJob(j) /\ j.payload.phase = "end" => events' = events]_vars

\* the end one-shot of a window child has been run by the timer core, after
\* the start of the window was delivered, and nothing was delivered for it
C30_Witness ==
    \E k \in 1..Len(fired) :
        /\ ChildJob(fired[k]) /\ fired[k].payload.phase = "end"
        /\ \E i \in 1..Len(events) : events[i].pid = fired[k].pid
        /\ \A i \in 1..Len(events) : events[i].ev.triggered_by.phase = "start"

====
